---- MODULE Spec2Model ----
(***************************************************************************)
(* Model of the forex analytics engine: ForexAnalyzer (forex_analyzer.py)  *)
(* and the realtime arbitrage check of main.py.                            *)
(*                                                                         *)
(* Numbers.  Prices are positive integers (one unit = one price step).     *)
(* Every ratio the code computes in float64 (a return, a moving average,   *)
(* a drawdown, a standard deviation) is a fixed-point integer with Scale   *)
(* units to 1.0, rounded down.  A float that may be NaN is a sequence:     *)
(* NaN is <<>> and the number v is <<v>>.                                  *)
(*                                                                         *)
(* Each entry point is exercised as a call: `call` holds the operation and *)
(* its arguments, `ret` what it returned (Pending before it has run).      *)
(***************************************************************************)
EXTENDS Integers, Sequences, FiniteSets

VARIABLES call, ret

\* the data directory: for each pair the rows of its <pair>_daily.csv
VARIABLE data_dir

\* the realtime monitor of main.py: the closure variables of main() and the
\* locals of the fetch_and_analyze cycle that is running
VARIABLES historical_data,     \* pair -> list of {'timestamp', 'rate'}
          last_hourly_report,  \* the hour of the last hourly summary
          clock,               \* datetime.now()
          current_time,        \* fetch_and_analyze: the time of the cycle
          pc,                  \* fetch_and_analyze: the statement reached
          pair_index,          \* fetch_and_analyze: position in `pairs`
          quote_data,          \* fetch_and_analyze: the quote just fetched
          all_analyses,        \* fetch_and_analyze: analyses collected
          cycles,              \* calls of fetch_and_analyze so far
          snapshot,            \* what the last report read of historical_data
          hourly_reports       \* the forex_hourly_summary files written

monitor_vars ==
    <<historical_data, last_hourly_report, clock, current_time, pc, pair_index,
      quote_data, all_analyses, cycles, snapshot, hourly_reports>>

\* the scheduler of scheduler.py: the run_analysis that is running
VARIABLES run_pc,      \* run_analysis: the statement reached ("idle" between runs)
          run_pair,    \* run_analysis: position in `currency_pairs`
          api_key,     \* os.getenv("ALPHA_VANTAGE_API_KEY") of the run
          steps,       \* what the run has done so far, in order
          runs         \* calls of run_analysis so far

scheduler_vars == <<run_pc, run_pair, api_key, steps, runs>>

vars == <<call, ret, data_dir, monitor_vars, scheduler_vars>>

\* main() of the scheduler before its first run_analysis
SchedulerStart ==
    /\ run_pc = "idle"
    /\ run_pair = 1
    /\ api_key = FALSE
    /\ steps = <<>>
    /\ runs = 0

\* the pairs whose realtime history is followed: the first two of `pairs`
MonitoredPairs == <<"EUR/USD", "USD/JPY">>

PairSet == {MonitoredPairs[i] : i \in 1..Len(MonitoredPairs)}

NoSnapshot == [reader |-> "none", data |-> [p \in PairSet |-> <<>>]]

\* main() up to the first call of fetch_and_analyze, started at time `start`
MonitorStart(start) ==
    /\ historical_data = [p \in PairSet |-> <<>>]
    /\ clock = start
    /\ current_time = start
    /\ pc = "sleep"
    /\ pair_index = 1
    /\ quote_data = [none |-> TRUE]   \* None
    /\ all_analyses = <<>>
    /\ cycles = 0
    /\ snapshot = NoSnapshot
    /\ hourly_reports = <<>>

\* the pairs with a daily file: the triangle of the arbitrage check and the
\* reference crypto asset
StoredPairs == {"EUR/USD", "EUR/GBP", "GBP/USD", "BTC/USD"}

\* os.path.exists(filename) is False
NoFile == [exists |-> FALSE, rows |-> <<>>]

EmptyDir == [p \in StoredPairs |-> NoFile]

\* the monitor is not running in the specifications of single calls
MonitorOff == MonitorStart(0) /\ last_hourly_report = 0

\* a single call that reads no file
NoFiles == data_dir = EmptyDir /\ MonitorOff /\ SchedulerStart

\* ------------------------------------------------------------------
\* Bounds of the model
\* ------------------------------------------------------------------

\* SMA values tried by the trend classifier are 0..MaxSma (and NaN)
MaxSma == 3

\* closes are BasePrice..BasePrice + PriceSpan in the series enumerated in
\* full, which have at most MaxShort rows
BasePrice == 100

PriceSpan == 2

MaxShort == 3

\* high = close + spread and low = close - spread, spread in 0..MaxSpread
MaxSpread == 1

\* the two series given to the correlation carry dates in 1..MaxDate
MaxDate == 4

\* the realtime monitor is followed for MaxCycles calls of fetch_and_analyze
MaxCycles == 3

\* the daily files hold the days 1..MaxDay
MaxDay == 2

\* the scheduler is followed for MaxRuns calls of run_analysis
MaxRuns == 2

\* a market summary is made of at most MaxAnalyses Analysis records
MaxAnalyses == 3

\* the daily time series of an API response has at most MaxApiRows days
MaxApiRows == 3

\* ------------------------------------------------------------------
\* float64 values, NaN and exceptions
\* ------------------------------------------------------------------

\* fixed-point resolution: Scale units to 1.0
Scale == 1000

NaN == <<>>

Num(v) == <<v>>

IsNaN(x) == x = NaN

Val(x) == x[1]

\* Python's float comparisons: every comparison with NaN is False
Gt(a, b) == ~IsNaN(a) /\ ~IsNaN(b) /\ Val(a) > Val(b)

Lt(a, b) == ~IsNaN(a) /\ ~IsNaN(b) /\ Val(a) < Val(b)

\* what a call has done so far: nothing yet, raised an exception, or returned
Pending == [st |-> "pending"]

Raise(e) == [st |-> "raised", exc |-> e]

Return(v) == [st |-> "returned", val |-> v]

Raised(r) == r.st = "raised"

Returned(r) == r.st = "returned"

\* Python's None, as a returned value
None == [none |-> TRUE]

IsNone(v) == "none" \in DOMAIN v

\* ------------------------------------------------------------------
\* ForexAnalyzer._determine_trend_direction
\* ------------------------------------------------------------------

\* a plausible slip: the first test has its comparison with sma_200 reversed
determine_trend_direction_flip(sma_20, sma_50, sma_200) ==
    LET current_price == sma_20
    IN  IF Gt(current_price, sma_50) /\ Lt(current_price, sma_200) THEN "strong_uptrend"
        ELSE IF Gt(current_price, sma_50) THEN "moderate_uptrend"
        ELSE IF Lt(current_price, sma_50) /\ Lt(current_price, sma_200) THEN "strong_downtrend"
        ELSE IF Lt(current_price, sma_50) THEN "moderate_downtrend"
        ELSE "sideways"

\* a plausible slip: the second test compares against sma_200 instead of sma_50
determine_trend_direction_mut(sma_20, sma_50, sma_200) ==
    LET current_price == sma_20
    IN  IF Gt(current_price, sma_50) /\ Gt(current_price, sma_200) THEN "strong_uptrend"
        ELSE IF Gt(current_price, sma_200) THEN "moderate_uptrend"
        ELSE IF Lt(current_price, sma_50) /\ Lt(current_price, sma_200) THEN "strong_downtrend"
        ELSE IF Lt(current_price, sma_50) THEN "moderate_downtrend"
        ELSE "sideways"

\* the arguments are the last values of the three SMA series (.iloc[-1])
determine_trend_direction(sma_20, sma_50, sma_200) ==
    LET current_price == sma_20
    IN  IF Gt(current_price, sma_50) /\ Gt(current_price, sma_200) THEN "strong_uptrend"
        ELSE IF Gt(current_price, sma_50) THEN "moderate_uptrend"
        ELSE IF Lt(current_price, sma_50) /\ Lt(current_price, sma_200) THEN "strong_downtrend"
        ELSE IF Lt(current_price, sma_50) THEN "moderate_downtrend"
        ELSE "sideways"

SmaValues == {NaN} \cup {Num(v) : v \in 0..MaxSma}

TrendCalls ==
    { [op |-> "_determine_trend_direction", sma_20 |-> a, sma_50 |-> b, sma_200 |-> c] :
        a \in SmaValues, b \in SmaValues, c \in SmaValues }

DetermineTrendDirection ==
    /\ call.op = "_determine_trend_direction"
    /\ ret = Pending
    /\ ret' = Return(determine_trend_direction(call.sma_20, call.sma_50, call.sma_200))
    /\ UNCHANGED <<call, data_dir, monitor_vars, scheduler_vars>>

InitTrend == call \in TrendCalls /\ ret = Pending /\ NoFiles

NextTrend == DetermineTrendDirection

SpecTrend == InitTrend /\ [][NextTrend]_vars

\* ------------------------------------------------------------------
\* pandas / numpy operations on a column
\*
\* A column of prices is a sequence of positive integers.  A float column
\* (returns, a rolling statistic) is a sequence of floats, NaN or <<v>>.
\* A price p as a float is the fixed-point value p * Scale.
\* ------------------------------------------------------------------

Fx(p) == p * Scale

Abs(x) == IF x < 0 THEN -x ELSE x

\* sum of the integers s[lo..hi], halving the range
RECURSIVE SumRange(_, _, _)
SumRange(s, lo, hi) ==
    IF lo > hi THEN 0
    ELSE IF lo = hi THEN s[lo]
    ELSE LET mid == (lo + hi) \div 2
         IN  SumRange(s, lo, mid) + SumRange(s, mid + 1, hi)

RECURSIVE MaxRange(_, _, _)
MaxRange(s, lo, hi) ==
    IF lo = hi THEN s[lo]
    ELSE LET mid == (lo + hi) \div 2
             a == MaxRange(s, lo, mid)
             b == MaxRange(s, mid + 1, hi)
         IN  IF a > b THEN a ELSE b

RECURSIVE MinRange(_, _, _)
MinRange(s, lo, hi) ==
    IF lo = hi THEN s[lo]
    ELSE LET mid == (lo + hi) \div 2
             a == MinRange(s, lo, mid)
             b == MinRange(s, mid + 1, hi)
         IN  IF a < b THEN a ELSE b

\* the largest r with r * r <= n, by bisection on [lo, hi]
RECURSIVE ISqrtIn(_, _, _)
ISqrtIn(n, lo, hi) ==
    IF lo >= hi THEN lo
    ELSE LET mid == (lo + hi + 1) \div 2
         IN  IF mid * mid <= n THEN ISqrtIn(n, mid, hi) ELSE ISqrtIn(n, lo, mid - 1)

ISqrt(n) == ISqrtIn(n, 0, IF n < 46340 THEN n ELSE 46340)

\* Series.dropna(), as the sequence of the values left
dropna(s) ==
    LET t == SelectSeq(s, LAMBDA x : x # NaN)
    IN  [i \in 1..Len(t) |-> t[i][1]]

\* Series.pct_change(periods): close[i] / close[i - periods] - 1, NaN for
\* the first `periods` rows
pct_change(close, periods) ==
    [i \in 1..Len(close) |->
        IF i <= periods THEN NaN
        ELSE Num(((close[i] - close[i - periods]) * Scale) \div close[i - periods])]

\* Series.mean(): NaN skipped, NaN when nothing is left
mean(s) ==
    LET xs == dropna(s)
    IN  IF Len(xs) = 0 THEN NaN ELSE Num(SumRange(xs, 1, Len(xs)) \div Len(xs))

\* Series.std(): the sample standard deviation (ddof = 1) of the values
\* that are not NaN, NaN when fewer than two are left.  The variance is
\* exact, (n * sum(x^2) - sum(x)^2) / (n * (n - 1)); a variance that is
\* not zero never rounds to a standard deviation of zero.
std(s) ==
    LET xs == dropna(s)
        n == Len(xs)
        sq == [i \in 1..n |-> xs[i] * xs[i]]
        total == SumRange(xs, 1, n)
        num == n * SumRange(sq, 1, n) - total * total
        r == ISqrt(num \div (n * (n - 1)))
    IN  IF n < 2 THEN NaN
        ELSE IF num = 0 THEN Num(0)
        ELSE IF r = 0 THEN Num(1)
        ELSE Num(r)

\* Series.rolling(window).mean() at row i (1-based): min_periods is the
\* window, so the value is NaN until `window` rows exist
rolling_mean_at(close, window, i) ==
    IF i < window THEN NaN
    ELSE Num((SumRange(close, i - window + 1, i) * Scale) \div window)

rolling_max_at(col, window, i) ==
    IF i < window THEN NaN ELSE Num(Fx(MaxRange(col, i - window + 1, i)))

rolling_min_at(col, window, i) ==
    IF i < window THEN NaN ELSE Num(Fx(MinRange(col, i - window + 1, i)))

\* the k-th smallest (k = 1 is the minimum) of a non-empty sequence
KthSmallest(xs, k) ==
    CHOOSE v \in {xs[i] : i \in 1..Len(xs)} :
        /\ Cardinality({i \in 1..Len(xs) : xs[i] < v}) < k
        /\ Cardinality({i \in 1..Len(xs) : xs[i] <= v}) >= k

\* np.percentile(xs, q) of a non-empty array, numpy's default linear
\* interpolation between the two order statistics around q% of (n - 1)
percentile(xs, q) ==
    LET pos == q * (Len(xs) - 1)
        lo == pos \div 100
        frac == pos % 100
        a == KthSmallest(xs, lo + 1)
    IN  IF frac = 0 THEN a
        ELSE a + ((KthSmallest(xs, lo + 2) - a) * frac) \div 100

\* ------------------------------------------------------------------
\* ForexAnalyzer.analyze_pair and its four sub-calculators
\*
\* data is a DataFrame: cols its column names, close/high/low its columns
\* (high and low are empty when the frame has no such column, as in the
\* one-row frame {'timestamp', 'close'} the realtime loop builds).
\* ------------------------------------------------------------------

\* the windows and lags written in the code
SmaShort == 20

SmaMid == 50

SmaLong == 200

SupportWindow == 20

PatternWindow == 10

\* the -10 of highs.iloc[-10] and lows.iloc[-10]
PatternOffset == 10

WeeklyLag == 5

MonthlyLag == 20

VarPercentile == 5

TradingDays == 252

\* risk_free_rate = 0.02, in percent
RiskFreePct == 2

\* the literal 100000 of avg_volume
VolumeFactor == 100000

\* the literal 0.001 of the double top / double bottom test
Tolerance == Scale \div 1000

\* risk_free_rate / 252 (below the fixed-point resolution: 0)
RiskFreeDaily == ((RiskFreePct * Scale) \div 100) \div TradingDays

\* np.sqrt(252), in hundredths
SqrtTradingDays == ISqrt(TradingDays * 10000)

Rows(data) == Len(data.close)

\* data['high'] - data['low'], row by row, in fixed point
daily_range(data) == [i \in 1..Rows(data) |-> Num(Fx(data.high[i] - data.low[i]))]

calculate_metrics(data) ==
    LET close == data.close
        n == Rows(data)
        returns == pct_change(close, 1)
        weekly_returns == pct_change(close, WeeklyLag)
        monthly_returns == pct_change(close, MonthlyLag)
        range == mean(daily_range(data))
    IN  IF n = 0 THEN Raise("IndexError")
        ELSE IF ~({"high", "low"} \subseteq data.cols) THEN Raise("KeyError")
        ELSE Return([current_price |-> Num(Fx(close[n])),
                     daily_change |-> returns[n],
                     weekly_change |-> weekly_returns[n],
                     monthly_change |-> monthly_returns[n],
                     volatility |-> std(returns),
                     avg_daily_range |-> range,
                     max_price |-> Num(Fx(MaxRange(data.high, 1, n))),
                     min_price |-> Num(Fx(MinRange(data.low, 1, n))),
                     avg_volume |-> Num(Val(range) * VolumeFactor)])

\* mean of abs(prices - sma_20) / sma_20 over the rows where sma_20 exists
calculate_trend_strength(prices, sma_20) ==
    mean([i \in 1..Len(prices) |->
            IF IsNaN(sma_20[i]) THEN NaN
            ELSE Num((Abs(Fx(prices[i]) - Val(sma_20[i])) * Scale) \div Val(sma_20[i]))])

find_support_level(data, window) == rolling_min_at(data.low, window, Rows(data))

find_resistance_level(data, window) == rolling_max_at(data.high, window, Rows(data))

\* a plausible slip: rolling(window, min_periods=1), a partial-window mean
rolling_mean_last_mut(close, window) ==
    LET n == Len(close)
        w == IF n < window THEN n ELSE window
    IN  Num((SumRange(close, n - w + 1, n) * Scale) \div w)

\* close.rolling(window).mean().iloc[-1] of a non-empty column
rolling_mean_last(close, window) == rolling_mean_at(close, window, Len(close))

analyze_trends(data) ==
    LET close == data.close
        n == Rows(data)
        sma_20 == [i \in 1..n |-> rolling_mean_at(close, SmaShort, i)]
        last_20 == rolling_mean_last(close, SmaShort)
        last_50 == rolling_mean_last(close, SmaMid)
        last_200 == rolling_mean_last(close, SmaLong)
    IN  IF n = 0 THEN Raise("IndexError")
        ELSE IF ~("low" \in data.cols) THEN Raise("KeyError")
        ELSE IF ~("high" \in data.cols) THEN Raise("KeyError")
        ELSE Return([sma_20 |-> last_20,
                     sma_50 |-> last_50,
                     sma_200 |-> last_200,
                     trend_direction |-> determine_trend_direction(last_20, last_50, last_200),
                     trend_strength |-> calculate_trend_strength(close, sma_20),
                     support_level |-> find_support_level(data, SupportWindow),
                     resistance_level |-> find_resistance_level(data, SupportWindow)])

\* abs(a - b) < 0.001 on floats: False when either is NaN
Near(a, b) == ~IsNaN(a) /\ ~IsNaN(b) /\ Abs(Val(a) - Val(b)) < Tolerance

\* highs.iloc[-1] against highs.iloc[-10]: the rolling maxima of the
\* windows ending at the last row and at the row 9 before it.  Only used
\* with at least PatternOffset rows (.iloc[-10] raises below that).
check_double_top(data) ==
    LET n == Rows(data)
    IN  Near(rolling_max_at(data.high, PatternWindow, n),
             rolling_max_at(data.high, PatternWindow, n - PatternOffset + 1))

check_double_bottom(data) ==
    LET n == Rows(data)
    IN  Near(rolling_min_at(data.low, PatternWindow, n),
             rolling_min_at(data.low, PatternWindow, n - PatternOffset + 1))

\* a plausible slip: a first detection, the highest high strictly inside
check_head_and_shoulders_mut(data) ==
    \E i \in 2..(Rows(data) - 1) : data.high[i] > data.high[1] /\ data.high[i] > data.high[Rows(data)]

check_head_and_shoulders(data) == FALSE

\* current_range > 2 * recent_volatility, False when the volatility is NaN
check_breakout_potential(data) ==
    LET recent_volatility == std(pct_change(data.close, 1))
        current_range == Fx(data.high[Rows(data)] - data.low[Rows(data)])
    IN  ~IsNaN(recent_volatility) /\ current_range > 2 * Val(recent_volatility)

identify_patterns(data) ==
    IF ~("high" \in data.cols) THEN Raise("KeyError")
    ELSE IF Rows(data) < PatternOffset THEN Raise("IndexError")
    ELSE Return([double_top |-> check_double_top(data),
                 double_bottom |-> check_double_bottom(data),
                 head_and_shoulders |-> check_head_and_shoulders(data),
                 breakout_potential |-> check_breakout_potential(data)])

\* a plausible slip: the drawdown measured from the first price, not the peak
calculate_max_drawdown_mut(prices) ==
    IF Len(prices) = 0 THEN NaN
    ELSE LET dd == [i \in 1..Len(prices) |-> ((prices[i] - prices[1]) * Scale) \div prices[1]]
         IN  Num(MinRange(dd, 1, Len(prices)))

\* peak is prices.expanding(min_periods=1).max(), drawdown is
\* (prices - peak) / peak row by row; drawdown.min() is NaN for an empty
\* column
calculate_max_drawdown(prices) ==
    LET peak == [i \in 1..Len(prices) |-> MaxRange(prices, 1, i)]
        drawdown == [i \in 1..Len(prices) |-> ((prices[i] - peak[i]) * Scale) \div peak[i]]
    IN  IF Len(prices) = 0 THEN NaN ELSE Num(MinRange(drawdown, 1, Len(prices)))

calculate_sharpe_ratio(returns) ==
    LET excess_returns == [i \in 1..Len(returns) |->
                              IF IsNaN(returns[i]) THEN NaN
                              ELSE Num(Val(returns[i]) - RiskFreeDaily)]
        sd == std(excess_returns)
        mu == mean(excess_returns)
    IN  IF sd = Num(0) THEN Num(0)
        ELSE IF IsNaN(sd) \/ IsNaN(mu) THEN NaN
        ELSE Num((SqrtTradingDays * Val(mu) * Scale) \div (100 * Val(sd)))

\* a plausible slip: the beta of the series against itself, 1.0
calculate_beta_mut(returns) == IF IsNaN(std(returns)) THEN NaN ELSE Num(Scale)

\* market_returns is None at the only call site
calculate_beta(returns) == std(returns)

\* np.percentile of an empty array (a frame of fewer than two rows) raises
\* IndexError or yields nan depending on the numpy build: empty_percentile
\* is the outcome of the build at hand
calculate_risk_metrics(data, empty_percentile) ==
    LET returns == pct_change(data.close, 1)
        sample == dropna(returns)
    IN  IF Len(sample) = 0 /\ empty_percentile = "IndexError" THEN Raise("IndexError")
        ELSE Return([var_95 |-> IF Len(sample) = 0 THEN NaN
                                ELSE Num(percentile(sample, VarPercentile)),
                     max_drawdown |-> calculate_max_drawdown(data.close),
                     sharpe_ratio |-> calculate_sharpe_ratio(returns),
                     beta |-> calculate_beta(returns)])

EmptyPercentileOutcomes == {"IndexError", "nan"}

\* the dictionary literal evaluates metrics, trends, patterns, risk_metrics
\* in that order; the first that raises ends the call
analyze_pair(data, pair, empty_percentile) ==
    LET metrics == calculate_metrics(data)
        trends == analyze_trends(data)
        patterns == identify_patterns(data)
        risk_metrics == calculate_risk_metrics(data, empty_percentile)
    IN  IF Raised(metrics) THEN metrics
        ELSE IF Raised(trends) THEN trends
        ELSE IF Raised(patterns) THEN patterns
        ELSE IF Raised(risk_metrics) THEN risk_metrics
        ELSE Return([pair |-> pair,
                     metrics |-> metrics.val,
                     trends |-> trends.val,
                     patterns |-> patterns.val,
                     risk_metrics |-> risk_metrics.val])

\* ------------------------------------------------------------------
\* Price series given to the analyzer
\* ------------------------------------------------------------------

OhlcCols == {"open", "high", "low", "close"}

\* the frame main.fetch_and_analyze builds from one quote
RealtimeCols == {"timestamp", "close"}

Frame(close, spread) ==
    [cols |-> OhlcCols,
     close |-> close,
     high |-> [i \in 1..Len(close) |-> close[i] + spread],
     low |-> [i \in 1..Len(close) |-> close[i] - spread]]

RealtimeFrame(rate) == [cols |-> RealtimeCols, close |-> <<rate>>, high |-> <<>>, low |-> <<>>]

Closes == BasePrice..(BasePrice + PriceSpan)

RECURSIVE SeqsUpTo(_, _)
SeqsUpTo(S, n) ==
    IF n = 0 THEN {<<>>}
    ELSE LET shorter == SeqsUpTo(S, n - 1)
         IN  shorter \cup {Append(q, x) : q \in {t \in shorter : Len(t) = n - 1}, x \in S}

\* the lengths around every window of the analyzer: 10 rows for the pattern
\* test (19 for both of its windows), 20, 50 and 200 for the SMAs
LongLengths ==
    UNION {{w - 1, w, w + 1} :
             w \in {PatternWindow, PatternWindow + PatternOffset - 1, SmaShort, SmaMid, SmaLong}}

Shapes == {"flat", "up", "down", "zigzag", "vee", "cap", "surge", "slowing", "spike"}

\* the turning point of a vee or a cap: 30 rows before the end
Pivot(n) == IF n > 30 THEN n - 30 ELSE n \div 2

ShapeClose(shape, n, i) ==
    CASE shape = "flat" -> BasePrice
      [] shape = "up" -> BasePrice + i
      [] shape = "down" -> BasePrice + n - i
      [] shape = "zigzag" -> BasePrice + (i % 2)
      [] shape = "vee" -> BasePrice + Abs(i - Pivot(n))
      [] shape = "cap" -> BasePrice + n - Abs(i - Pivot(n))
      [] shape = "surge" -> BasePrice + i + (IF i > Pivot(n) THEN 2 * (i - Pivot(n)) ELSE 0)
      [] shape = "slowing" -> BasePrice + 3 * i - (IF i > Pivot(n) THEN 2 * (i - Pivot(n)) ELSE 0)
      [] shape = "spike" -> BasePrice + (IF i = n - PatternOffset + 1 THEN 1 ELSE 0)

ShapedSeries == {[i \in 1..n |-> ShapeClose(shape, n, i)] : n \in LongLengths, shape \in Shapes}

InputFrames ==
    {Frame(close, spread) : close \in SeqsUpTo(Closes, MaxShort) \cup ShapedSeries,
                            spread \in 0..MaxSpread}
    \cup {RealtimeFrame(rate) : rate \in Closes}

AnalysisOps ==
    {"analyze_pair", "_calculate_metrics", "_analyze_trends", "_identify_patterns",
     "_calculate_risk_metrics", "_calculate_max_drawdown"}

AnalysisCalls == {[op |-> o, data |-> d, pair |-> "EUR/USD"] : o \in AnalysisOps, d \in InputFrames}

AnalyzePair ==
    /\ call.op = "analyze_pair"
    /\ ret = Pending
    /\ \E e \in EmptyPercentileOutcomes : ret' = analyze_pair(call.data, call.pair, e)
    /\ UNCHANGED <<call, data_dir, monitor_vars, scheduler_vars>>

CalculateMetrics ==
    /\ call.op = "_calculate_metrics"
    /\ ret = Pending
    /\ ret' = calculate_metrics(call.data)
    /\ UNCHANGED <<call, data_dir, monitor_vars, scheduler_vars>>

AnalyzeTrends ==
    /\ call.op = "_analyze_trends"
    /\ ret = Pending
    /\ ret' = analyze_trends(call.data)
    /\ UNCHANGED <<call, data_dir, monitor_vars, scheduler_vars>>

IdentifyPatterns ==
    /\ call.op = "_identify_patterns"
    /\ ret = Pending
    /\ ret' = identify_patterns(call.data)
    /\ UNCHANGED <<call, data_dir, monitor_vars, scheduler_vars>>

CalculateRiskMetrics ==
    /\ call.op = "_calculate_risk_metrics"
    /\ ret = Pending
    /\ \E e \in EmptyPercentileOutcomes : ret' = calculate_risk_metrics(call.data, e)
    /\ UNCHANGED <<call, data_dir, monitor_vars, scheduler_vars>>

CalculateMaxDrawdown ==
    /\ call.op = "_calculate_max_drawdown"
    /\ ret = Pending
    /\ ret' = Return(calculate_max_drawdown(call.data.close))
    /\ UNCHANGED <<call, data_dir, monitor_vars, scheduler_vars>>

InitAnalysis == call \in AnalysisCalls /\ ret = Pending /\ NoFiles

NextAnalysis ==
    \/ AnalyzePair
    \/ CalculateMetrics
    \/ AnalyzeTrends
    \/ IdentifyPatterns
    \/ CalculateRiskMetrics
    \/ CalculateMaxDrawdown

SpecAnalysis == InitAnalysis /\ [][NextAnalysis]_vars

\* ------------------------------------------------------------------
\* Triangular arbitrage: ForexAnalyzer.detect_arbitrage_opportunities (the
\* batch path) and main.calculate_arbitrage_opportunities (the realtime path)
\*
\* A rate is an integer number of hundredths (110 is 1.10).  A percentage
\* is the exact rational <<num, den>>, den > 0.
\* ------------------------------------------------------------------

\* rate units to 1.0
PriceUnit == 100

PctAbsGt(p, q) ==
    LET a == IF p[1] < 0 THEN -p[1] ELSE p[1]
    IN  a * q[2] > q[1] * p[2]

\* the literal 0.1 of the batch path, as a rational percentage
BatchThreshold == <<1, 10>>

\* the literal 0.05 of the realtime path
RealtimeThreshold == <<1, 20>>

\* the pairs main() monitors, in its order
currency_pairs == <<"EUR/USD", "USD/JPY", "GBP/USD", "AUD/USD", "EUR/GBP">>

TrianglePairs == <<"EUR/USD", "EUR/GBP", "GBP/USD">>

\* (direct/indirect - 1) * 100, with direct in rate units and indirect the
\* product of two rates
difference_pct(direct, indirect) == <<(direct * PriceUnit - indirect) * 100, indirect>>

\* the dictionary built by `for base, quote in currency_pairs`: a pair is
\* in it iff load_currency_data found its file (files[pair] # <<>>), with
\* the last close of the file
RECURSIVE load_pair_rates(_, _, _)
load_pair_rates(pairs, files, i) ==
    IF i > Len(pairs) THEN <<>>
    ELSE LET rest == load_pair_rates(pairs, files, i + 1)
             pair == pairs[i]
         IN  IF files[pair] # <<>> THEN <<[pair |-> pair, rate |-> files[pair][1]]>> \o rest
             ELSE rest

InRates(rates, pair) == \E i \in 1..Len(rates) : rates[i].pair = pair

RateOf(rates, pair) == rates[CHOOSE i \in 1..Len(rates) : rates[i].pair = pair].rate

\* a detector that would not wait for the two legs of the indirect route
TriangleCheck_mut(rates, kind, limit) ==
    IF InRates(rates, "EUR/USD")
    THEN << [type |-> kind,
             pairs |-> TrianglePairs,
             direct_rate |-> RateOf(rates, "EUR/USD"),
             indirect_rate |-> RateOf(rates, "EUR/USD") * PriceUnit,
             difference_pct |-> <<0, 1>>] >>
    ELSE <<>>

\* the triangle check shared by the two paths, each with its own literal
TriangleCheck(rates, kind, limit) ==
    IF InRates(rates, "EUR/USD") /\ InRates(rates, "GBP/USD") /\ InRates(rates, "EUR/GBP")
    THEN LET direct == RateOf(rates, "EUR/USD")
             indirect == RateOf(rates, "EUR/GBP") * RateOf(rates, "GBP/USD")
         IN  IF PctAbsGt(difference_pct(direct, indirect), limit)
             THEN << [type |-> kind,
                      pairs |-> TrianglePairs,
                      direct_rate |-> direct,
                      indirect_rate |-> indirect,
                      difference_pct |-> difference_pct(direct, indirect)] >>
             ELSE <<>>
    ELSE <<>>

detect_arbitrage_opportunities(pairs, files) ==
    TriangleCheck(load_pair_rates(pairs, files, 1), "triangular", BatchThreshold)

\* all_analyses of one realtime cycle: one analysis per pair with a quote,
\* of which the detector reads 'pair' and metrics.current_price
RECURSIVE analyses_of(_, _, _)
analyses_of(pairs, quotes, i) ==
    IF i > Len(pairs) THEN <<>>
    ELSE LET rest == analyses_of(pairs, quotes, i + 1)
             pair == pairs[i]
         IN  IF quotes[pair] # <<>>
             THEN <<[pair |-> pair, metrics |-> [current_price |-> quotes[pair][1]]]>> \o rest
             ELSE rest

calculate_arbitrage_opportunities(analyses) ==
    LET rates == [i \in 1..Len(analyses) |->
                    [pair |-> analyses[i].pair, rate |-> analyses[i].metrics.current_price]]
    IN  TriangleCheck(rates, "Triangular", RealtimeThreshold)

\* the latest rates tried for each pair; <<>> is a pair with no data
PairRates(pair) ==
    CASE pair = "EUR/USD" -> {<<>>, <<100>>, <<110>>, <<1001>>, <<1333>>, <<2001>>}
      [] pair = "EUR/GBP" -> {<<>>, <<90>>, <<100>>, <<250>>, <<333>>, <<400>>}
      [] pair = "GBP/USD" -> {<<>>, <<100>>, <<120>>, <<400>>, <<500>>}
      [] pair = "USD/JPY" -> {<<>>, <<15000>>}
      [] OTHER -> {<<>>}

PairNames == {currency_pairs[i] : i \in 1..Len(currency_pairs)}

RateTables == {f \in [PairNames -> UNION {PairRates(p) : p \in PairNames}] :
                 \A p \in PairNames : f[p] \in PairRates(p)}

\* the thresholds a caller may want configured (section 4.7): 0.05, 0.1, 5
ConfiguredThresholds == {<<1, 20>>, <<1, 10>>, <<5, 1>>}

ArbCalls ==
    { [op |-> "arbitrage", rates |-> f, threshold |-> t] :
        f \in RateTables, t \in ConfiguredThresholds }

\* neither path takes the configured threshold: both read only the rates
DetectArbitrageOpportunities ==
    /\ call.op = "arbitrage"
    /\ ret.batch = Pending
    /\ ret' = [ret EXCEPT !.batch =
                 Return(detect_arbitrage_opportunities(currency_pairs, call.rates))]
    /\ UNCHANGED <<call, data_dir, monitor_vars, scheduler_vars>>

CalculateArbitrageOpportunities ==
    /\ call.op = "arbitrage"
    /\ ret.realtime = Pending
    /\ ret' = [ret EXCEPT !.realtime =
                 Return(calculate_arbitrage_opportunities(
                            analyses_of(currency_pairs, call.rates, 1)))]
    /\ UNCHANGED <<call, data_dir, monitor_vars, scheduler_vars>>

InitArb ==
    /\ call \in ArbCalls
    /\ ret = [st |-> "both", batch |-> Pending, realtime |-> Pending]
    /\ NoFiles

NextArb == DetectArbitrageOpportunities \/ CalculateArbitrageOpportunities

SpecArb == InitArb /\ [][NextArb]_vars

\* ------------------------------------------------------------------
\* ForexAnalyzer.calculate_crypto_correlation
\*
\* forex_data is None or a frame [close |-> f], crypto_data is None or a
\* series [close |-> g]; f and g map the dates of the index to prices.
\* A call with no window argument runs with DefaultWindow.
\* ------------------------------------------------------------------

DefaultWindow == 30

\* DataFrame.empty / Series.empty
empty(data) == DOMAIN data.close = {}

\* index.intersection: the dates of both, in ascending order
intersection(forex_data, crypto_data) ==
    LET both == DOMAIN forex_data.close \cap DOMAIN crypto_data.close
    IN  [k \in 1..Cardinality(both) |->
            CHOOSE d \in both : Cardinality({e \in both : e < d}) = k - 1]

\* a plausible slip: the series are paired by position, the last rows of each
loc_mut(data, common_dates) ==
    LET own == intersection(data, data)
    IN  [k \in 1..Len(common_dates) |->
            data.close[own[Len(own) - Len(common_dates) + k]]]

\* data.loc[common_dates]: the prices at the common dates
loc(data, common_dates) == [k \in 1..Len(common_dates) |-> data.close[common_dates[k]]]

\* a plausible slip: the cross term is not centred
rolling_corr_at_mut(x, y, window, i) ==
    LET lo == i - window + 1
        full == lo >= 1 /\ \A k \in lo..i : ~IsNaN(x[k]) /\ ~IsNaN(y[k])
        xs == [k \in 1..window |-> Val(x[lo + k - 1])]
        ys == [k \in 1..window |-> Val(y[lo + k - 1])]
        sx == SumRange(xs, 1, window)
        sy == SumRange(ys, 1, window)
        sxx == window * SumRange([k \in 1..window |-> xs[k] * xs[k]], 1, window) - sx * sx
        syy == window * SumRange([k \in 1..window |-> ys[k] * ys[k]], 1, window) - sy * sy
        sxy == window * SumRange([k \in 1..window |-> xs[k] * ys[k]], 1, window)
    IN  IF ~full THEN NaN
        ELSE IF sxx = 0 \/ syy = 0 THEN NaN
        ELSE Num((sxy * Scale) \div ISqrt(sxx * syy))

\* x.rolling(window).corr(y) at row i: the Pearson correlation of the rows
\* i - window + 1 .. i, NaN when the window is not full, holds a NaN, or
\* one side does not vary in it
rolling_corr_at(x, y, window, i) ==
    LET lo == i - window + 1
        full == lo >= 1 /\ \A k \in lo..i : ~IsNaN(x[k]) /\ ~IsNaN(y[k])
        xs == [k \in 1..window |-> Val(x[lo + k - 1])]
        ys == [k \in 1..window |-> Val(y[lo + k - 1])]
        sx == SumRange(xs, 1, window)
        sy == SumRange(ys, 1, window)
        sxx == window * SumRange([k \in 1..window |-> xs[k] * xs[k]], 1, window) - sx * sx
        syy == window * SumRange([k \in 1..window |-> ys[k] * ys[k]], 1, window) - sy * sy
        sxy == window * SumRange([k \in 1..window |-> xs[k] * ys[k]], 1, window) - sx * sy
    IN  IF ~full THEN NaN
        ELSE IF sxx = 0 \/ syy = 0 THEN NaN
        ELSE Num((sxy * Scale) \div ISqrt(sxx * syy))

\* a plausible slip: a tie, or an undefined value, reads as increasing
correlation_trend_mut(current, avg) ==
    IF Lt(current, avg) THEN "decreasing" ELSE "increasing"

correlation_trend(current, avg) ==
    IF Gt(current, avg) THEN "increasing" ELSE "decreasing"

\* the part after the guards: returns, rolling correlation, the result
rolling_correlation_result(forex_data, crypto_data, common_dates, window) ==
    LET forex_returns == pct_change(loc(forex_data, common_dates), 1)
        crypto_returns == pct_change(loc(crypto_data, common_dates), 1)
        n == Len(common_dates)
        correlation == [i \in 1..n |-> rolling_corr_at(forex_returns, crypto_returns, window, i)]
    IN  IF n = 0 THEN Raise("IndexError")
        ELSE Return([current_correlation |-> correlation[n],
                     avg_correlation |-> mean(correlation),
                     correlation_trend |-> correlation_trend(correlation[n], mean(correlation))])

\* a plausible slip: the test of the number of common dates is left out
calculate_crypto_correlation_mut(forex_data, crypto_data, window) ==
    IF IsNone(forex_data) \/ IsNone(crypto_data) THEN Return(None)
    ELSE IF empty(forex_data) \/ empty(crypto_data) THEN Return(None)
    ELSE rolling_correlation_result(forex_data, crypto_data,
                                    intersection(forex_data, crypto_data), window)

calculate_crypto_correlation(forex_data, crypto_data, window) ==
    IF IsNone(forex_data) \/ IsNone(crypto_data) THEN Return(None)
    ELSE IF empty(forex_data) \/ empty(crypto_data) THEN Return(None)
    ELSE LET common_dates == intersection(forex_data, crypto_data)
         IN  IF Len(common_dates) < window THEN Return(None)
             ELSE rolling_correlation_result(forex_data, crypto_data, common_dates, window)

\* ---- the calls made

Dates == 1..MaxDate

CorrPrices == {BasePrice, BasePrice + 1}

\* a forex frame has any set of dates (markets close), or is missing
ForexFrames ==
    {None} \cup {[close |-> f] : f \in UNION {[D -> CorrPrices] : D \in SUBSET Dates}}

\* the crypto series has a run of consecutive dates, or is missing
CryptoSeries ==
    {None} \cup {[close |-> g] :
                    g \in UNION {[a..b -> CorrPrices] : a \in Dates, b \in 0..MaxDate}}

Windows == {2, 3, DefaultWindow}

CorrCalls ==
    [op : {"calculate_crypto_correlation"}, forex_data : ForexFrames,
     crypto_data : CryptoSeries, window : Windows]

CalculateCryptoCorrelation ==
    /\ call.op = "calculate_crypto_correlation"
    /\ ret = Pending
    /\ ret' = calculate_crypto_correlation(call.forex_data, call.crypto_data, call.window)
    /\ UNCHANGED <<call, data_dir, monitor_vars, scheduler_vars>>

InitCorr == call \in CorrCalls /\ ret = Pending /\ NoFiles

NextCorr == CalculateCryptoCorrelation

SpecCorr == InitCorr /\ [][NextCorr]_vars

\* ------------------------------------------------------------------
\* main.py: the realtime monitor
\*
\* Time is counted in ticks of one sleep of the main loop (600 seconds).
\* fetch_and_analyze is followed statement by statement: for each pair
\* fetch, append, prune, analyze; then the market summary and, when the
\* hour has changed, the hourly summary.  One thread runs all of it.
\* ------------------------------------------------------------------

SleepSeconds == 600

HourTicks == 3600 \div SleepSeconds

WindowHours == 24

WindowTicks == WindowHours * HourTicks

\* a plausible slip: the time of the cycle is compared as it is
hour_of_mut(t) == t

\* current_time.replace(minute=0, second=0, microsecond=0)
hour_of(t) == (t \div HourTicks) * HourTicks

\* the time from one cycle to the next: the sleep, or longer when the
\* process was held up (an hour, a tick short of the window, the window)
Delays == {1, HourTicks, WindowTicks - 1, WindowTicks}

\* datetime.now() when main() starts: on the hour or a tick before the next
Starts == {0, HourTicks - 1}

\* get_latest_quote: a quote, or nothing (None, or an exception raised
\* before the append and caught by the except of the loop)
Quotes == {None} \cup {[rate |-> r] : r \in {BasePrice, BasePrice + 1}}

CurrentPair == MonitoredPairs[pair_index]

\* a plausible slip: the prune is written after the analysis
next_stage_mut(stage) ==
    CASE stage = "fetch" -> "append"
      [] stage = "append" -> "analyze"
      [] stage = "analyze" -> "prune"
      [] stage = "prune" -> "fetch"

\* the order of the statements of one iteration of `for base, quote in pairs`
next_stage(stage) ==
    CASE stage = "fetch" -> "append"
      [] stage = "append" -> "prune"
      [] stage = "prune" -> "analyze"
      [] stage = "analyze" -> "fetch"

\* a plausible slip: a point exactly 24 hours old is kept
prune_mut(points, now) == SelectSeq(points, LAMBDA d : d.timestamp >= now - WindowTicks)

\* [d for d in historical_data[pair] if d['timestamp'] > cutoff_time]
prune(points, now) == SelectSeq(points, LAMBDA d : d.timestamp > now - WindowTicks)

\* hour_data = [d for d in data if d['timestamp'] > hour_ago]
hour_data(data, now) == SelectSeq(data, LAMBDA d : d.timestamp > now - HourTicks)

\* generate_hourly_summary: the file named after current_time, with a
\* section for every pair that has a point in the last hour (the average,
\* the change and the volatility written after the low are functions of
\* the same rates)
generate_hourly_summary(history, now) ==
    [timestamp |-> now,
     sections |->
        [p \in PairSet |->
            LET points == hour_data(history[p], now)
                rates == [k \in 1..Len(points) |-> points[k].rate]
            IN  IF history[p] # <<>> /\ points # <<>>
                THEN <<[opening |-> points[1].rate,
                        closing |-> points[Len(points)].rate,
                        high |-> MaxRange(rates, 1, Len(rates)),
                        low |-> MinRange(rates, 1, Len(rates))]>>
                ELSE <<>>]]

\* a plausible slip: the try is written around the loop, so that the first
\* failure ends it
GoTo_mut(stage) ==
    /\ pc' = stage
    /\ pair_index' = IF stage = "fetch" THEN Len(MonitoredPairs) + 1 ELSE pair_index

\* control passes to `stage`; "fetch" is the next iteration of the loop
GoTo(stage) ==
    /\ pc' = stage
    /\ pair_index' = IF stage = "fetch" THEN pair_index + 1 ELSE pair_index

\* the main loop calls fetch_and_analyze: at once the first time, after the
\* sleep (or later) from then on
StartCycle ==
    /\ pc = "sleep"
    /\ cycles < MaxCycles
    /\ \E d \in (IF cycles = 0 THEN {0} ELSE Delays) :
          /\ clock' = clock + d
          /\ current_time' = clock + d
    /\ pc' = "fetch"
    /\ pair_index' = 1
    /\ quote_data' = None
    /\ all_analyses' = <<>>
    /\ cycles' = cycles + 1
    /\ UNCHANGED <<scheduler_vars, call, ret, data_dir, historical_data, last_hourly_report, snapshot, hourly_reports>>

FetchQuote ==
    /\ pc = "fetch"
    /\ pair_index <= Len(MonitoredPairs)
    /\ \E q \in Quotes :
          /\ quote_data' = q
          /\ IF IsNone(q) THEN GoTo("fetch") ELSE GoTo(next_stage("fetch"))
    /\ UNCHANGED <<scheduler_vars, call, ret, data_dir, historical_data, last_hourly_report, clock, current_time,
                   all_analyses, cycles, snapshot, hourly_reports>>

\* a plausible slip: the new point is put in front of the buffer
AppendPoint_mut ==
    /\ pc = "append"
    /\ historical_data' =
          [historical_data EXCEPT ![CurrentPair] =
              <<[timestamp |-> current_time, rate |-> quote_data.rate]>> \o @]
    /\ pc' = "prune"
    /\ UNCHANGED <<scheduler_vars, call, ret, data_dir, last_hourly_report, clock, current_time, pair_index,
                   quote_data, all_analyses, cycles, snapshot, hourly_reports>>

AppendPoint ==
    /\ pc = "append"
    /\ historical_data' =
          [historical_data EXCEPT ![CurrentPair] =
              Append(@, [timestamp |-> current_time, rate |-> quote_data.rate])]
    /\ GoTo(next_stage("append"))
    /\ UNCHANGED <<scheduler_vars, call, ret, data_dir, last_hourly_report, clock, current_time, quote_data,
                   all_analyses, cycles, snapshot, hourly_reports>>

PrunePoints ==
    /\ pc = "prune"
    /\ historical_data' = [historical_data EXCEPT ![CurrentPair] = prune(@, current_time)]
    /\ GoTo(next_stage("prune"))
    /\ UNCHANGED <<scheduler_vars, call, ret, data_dir, last_hourly_report, clock, current_time, quote_data,
                   all_analyses, cycles, snapshot, hourly_reports>>

\* analyzer.analyze_pair on the one-row frame of the quote; an exception
\* ends the iteration (except Exception)
AnalyzeQuote ==
    /\ pc = "analyze"
    /\ \E e \in EmptyPercentileOutcomes :
          LET analysis == analyze_pair(RealtimeFrame(quote_data.rate), CurrentPair, e)
          IN  IF Raised(analysis)
              THEN GoTo("fetch") /\ UNCHANGED all_analyses
              ELSE /\ all_analyses' = Append(all_analyses, analysis.val)
                   /\ GoTo(next_stage("analyze"))
    /\ UNCHANGED <<scheduler_vars, call, ret, data_dir, historical_data, last_hourly_report, clock, current_time,
                   quote_data, cycles, snapshot, hourly_reports>>

\* generate_market_summary: generate_market_insights reads the buffer of
\* every analysed pair that holds more than one point
GenerateMarketSummary ==
    /\ pc = "fetch"
    /\ pair_index > Len(MonitoredPairs)
    /\ snapshot' =
          [reader |-> "generate_market_summary",
           data |-> [p \in PairSet |->
                        IF /\ \E k \in 1..Len(all_analyses) : all_analyses[k].pair = p
                           /\ Len(historical_data[p]) > 1
                        THEN historical_data[p] ELSE <<>>]]
    /\ pc' = "hourly"
    /\ UNCHANGED <<scheduler_vars, call, ret, data_dir, historical_data, last_hourly_report, clock, current_time,
                   pair_index, quote_data, all_analyses, cycles, hourly_reports>>

\* generate_hourly_summary, when the hour of the cycle is after the last one
GenerateHourlySummary ==
    /\ pc = "hourly"
    /\ hour_of(current_time) > last_hourly_report
    /\ snapshot' = [reader |-> "generate_hourly_summary", data |-> historical_data]
    /\ hourly_reports' = Append(hourly_reports, generate_hourly_summary(historical_data, current_time))
    /\ last_hourly_report' = hour_of(current_time)
    /\ pc' = "sleep"
    /\ UNCHANGED <<scheduler_vars, call, ret, data_dir, historical_data, clock, current_time, pair_index,
                   quote_data, all_analyses, cycles>>

SkipHourlySummary ==
    /\ pc = "hourly"
    /\ ~(hour_of(current_time) > last_hourly_report)
    /\ pc' = "sleep"
    /\ UNCHANGED <<scheduler_vars, call, ret, data_dir, historical_data, last_hourly_report, clock, current_time,
                   pair_index, quote_data, all_analyses, cycles, snapshot, hourly_reports>>

InitMonitor ==
    /\ call = [op |-> "main"]
    /\ ret = Pending
    /\ data_dir = EmptyDir
    /\ SchedulerStart
    /\ \E start \in Starts : MonitorStart(start) /\ last_hourly_report = hour_of(start)

NextMonitor ==
    \/ StartCycle
    \/ FetchQuote
    \/ AppendPoint
    \/ PrunePoints
    \/ AnalyzeQuote
    \/ GenerateMarketSummary
    \/ GenerateHourlySummary
    \/ SkipHourlySummary

SpecMonitor == InitMonitor /\ [][NextMonitor]_vars

\* ------------------------------------------------------------------
\* The daily files: ForexDataFetcher.save_forex_data / save_crypto_data
\* write them, ForexAnalyzer.load_currency_data and
\* CorrelationAnalyzer.load_data read them back
\* ------------------------------------------------------------------

\* the close of a pair on a day, in rate units; EUR/USD moves between 1.10
\* and 1.08 while EUR/GBP * GBP/USD stays at 1.08
StoreClose(pair, day) ==
    CASE pair = "EUR/USD" -> IF day % 2 = 1 THEN 110 ELSE 108
      [] pair = "EUR/GBP" -> 90
      [] pair = "GBP/USD" -> 120
      [] OTHER -> BasePrice + day

\* the response of the API for the days 1..k of a pair, oldest first or
\* newest first (the order of the keys of the "Time Series" object)
Response(pair, k, order) ==
    [series |-> [i \in 1..k |->
                    LET day == IF order = "oldest_first" THEN i ELSE k + 1 - i
                    IN  [date |-> day, close |-> StoreClose(pair, day)]]]

\* what a fetch hands to the save: a response, or None
Responses(pair) ==
    {None} \cup {Response(pair, k, order) : k \in 1..MaxDay,
                                             order \in {"oldest_first", "newest_first"}}

\* save_forex_data / save_crypto_data: DataFrame.from_dict(..., orient=
\* "index") keeps the order of the response, to_csv writes the rows as they
\* are; nothing is written for a missing response
save_daily_file(dir, data, pair) ==
    IF IsNone(data) THEN dir
    ELSE [dir EXCEPT ![pair] = [exists |-> TRUE, rows |-> data.series]]

\* load_currency_data / load_data: None without a file, else the rows as
\* read_csv finds them
load_currency_data(dir, pair) ==
    IF pair \in DOMAIN dir /\ dir[pair].exists THEN [rows |-> dir[pair].rows] ELSE None

\* .iloc[-1]
iloc_last(rows) == rows[Len(rows)]

\* df["close"].iloc[-1] for every pair with a file
last_closes(dir) ==
    [p \in PairNames |->
        LET df == load_currency_data(dir, p)
        IN  IF IsNone(df) THEN <<>> ELSE <<iloc_last(df.rows).close>>]

\* Series.corr: Pearson over the rows, NaN with fewer than two rows or when
\* one side does not vary
pearson(xs, ys) ==
    LET n == Len(xs)
        sx == SumRange(xs, 1, n)
        sy == SumRange(ys, 1, n)
        sxx == n * SumRange([k \in 1..n |-> xs[k] * xs[k]], 1, n) - sx * sx
        syy == n * SumRange([k \in 1..n |-> ys[k] * ys[k]], 1, n) - sy * sy
        sxy == n * SumRange([k \in 1..n |-> xs[k] * ys[k]], 1, n) - sx * sy
    IN  IF n < 2 \/ sxx = 0 \/ syy = 0 THEN NaN
        ELSE Num((sxy * Scale) \div ISqrt(sxx * syy))

\* the close of the row of a date
close_on(df, date) == (CHOOSE r \in {df.rows[i] : i \in 1..Len(df.rows)} : r.date = date).close

dates_of(df) == {df.rows[i].date : i \in 1..Len(df.rows)}

\* pd.DataFrame({'crypto': ..., 'forex': ...}).dropna(): the dates of both
combined_dates(crypto_df, forex_df) ==
    LET both == dates_of(crypto_df) \cap dates_of(forex_df)
    IN  [k \in 1..Cardinality(both) |->
            CHOOSE d \in both : Cardinality({e \in both : e < d}) = k - 1]

\* the pairs of scheduler.run_analysis
base_pairs == <<"EUR/USD", "GBP/USD", "JPY/USD", "AUD/USD">>

\* CorrelationAnalyzer.calculate_correlations
calculate_correlations(dir, pairs, crypto_pair) ==
    LET crypto_df == load_currency_data(dir, crypto_pair)
        loaded == {pairs[i] : i \in {j \in 1..Len(pairs) : ~IsNone(load_currency_data(dir, pairs[j]))}}
        joined == {p \in loaded : Len(combined_dates(crypto_df, load_currency_data(dir, p))) > 0}
    IN  IF IsNone(crypto_df) THEN Raise("ValueError")
        ELSE Return([correlations |->
                        [p \in joined |->
                            LET forex_df == load_currency_data(dir, p)
                                dates == combined_dates(crypto_df, forex_df)
                            IN  pearson([k \in 1..Len(dates) |-> close_on(crypto_df, dates[k])],
                                        [k \in 1..Len(dates) |-> close_on(forex_df, dates[k])])],
                     price_data |-> loaded \cup {crypto_pair}])

\* ---- the operations on the data directory

SaveForexData ==
    /\ \E pair \in StoredPairs \ {"BTC/USD"} : \E data \in Responses(pair) :
          /\ data_dir' = save_daily_file(data_dir, data, pair)
          /\ call' = [op |-> "save_forex_data", pair |-> pair]
          /\ ret' = Return(~IsNone(data))
    /\ UNCHANGED <<monitor_vars, scheduler_vars>>

SaveCryptoData ==
    /\ \E data \in Responses("BTC/USD") :
          /\ data_dir' = save_daily_file(data_dir, data, "BTC/USD")
          /\ call' = [op |-> "save_crypto_data", pair |-> "BTC/USD"]
          /\ ret' = Return(~IsNone(data))
    /\ UNCHANGED <<monitor_vars, scheduler_vars>>

DetectFromFiles ==
    /\ call' = [op |-> "detect_arbitrage_opportunities", pair |-> "all"]
    /\ ret' = Return(detect_arbitrage_opportunities(currency_pairs, last_closes(data_dir)))
    /\ UNCHANGED <<data_dir, monitor_vars, scheduler_vars>>

CalculateCorrelations ==
    /\ call' = [op |-> "calculate_correlations", pair |-> "all"]
    /\ ret' = calculate_correlations(data_dir, base_pairs, "BTC/USD")
    /\ UNCHANGED <<data_dir, monitor_vars, scheduler_vars>>

InitStore ==
    /\ call = [op |-> "start", pair |-> "all"]
    /\ ret = Pending
    /\ data_dir = EmptyDir
    /\ MonitorOff
    /\ SchedulerStart

NextStore == SaveForexData \/ SaveCryptoData \/ DetectFromFiles \/ CalculateCorrelations

SpecStore == InitStore /\ [][NextStore]_vars

\* ------------------------------------------------------------------
\* Market summarisation: main.generate_market_insights,
\* ReportGenerator.generate_market_analysis and
\* ForexAnalyzer._generate_trading_implications
\* ------------------------------------------------------------------

\* trend.get('strength', 0): analyze_pair writes the key 'trend_strength',
\* so the default is what is read
strength_of(trend) == IF "strength" \in DOMAIN trend THEN trend.strength ELSE Num(0)

\* np.std(rates) / np.mean(rates) * 100 against a limit num/den, without
\* the root: with s the sum and v = n * sum of squares - s * s,
\* volatility > num/den iff v * (100 * den)^2 > (num * s)^2
rates_spread(rates) ==
    LET n == Len(rates)
        total == SumRange(rates, 1, n)
    IN  [s |-> total, v |-> n * SumRange([k \in 1..n |-> rates[k] * rates[k]], 1, n) - total * total]

high_volatility(rates) ==
    LET m == rates_spread(rates) IN m.v * 200 * 200 > m.s * m.s

low_volatility(rates) ==
    LET m == rates_spread(rates) IN m.v * 1000 * 1000 < m.s * m.s

\* the first loop: one insight per analysed pair whose buffer holds more
\* than one point and whose volatility is above 0.5 or below 0.1
RECURSIVE volatility_insights(_, _, _)
volatility_insights(analyses, history, i) ==
    IF i > Len(analyses) THEN <<>>
    ELSE LET pair == analyses[i].pair
             rest == volatility_insights(analyses, history, i + 1)
             rates == [k \in 1..Len(history[pair]) |-> history[pair][k].rate]
         IN  IF pair \in DOMAIN history /\ Len(history[pair]) > 1
             THEN IF high_volatility(rates)
                  THEN <<[pair |-> pair, kind |-> "high_volatility"]>> \o rest
                  ELSE IF low_volatility(rates)
                  THEN <<[pair |-> pair, kind |-> "low_volatility"]>> \o rest
                  ELSE rest
             ELSE rest

\* the second loop: upward momentum for 'bullish', downward pressure for
\* 'bearish', both only with strength above 0.01
RECURSIVE trend_insights(_, _)
trend_insights(analyses, i) ==
    IF i > Len(analyses) THEN <<>>
    ELSE LET analysis == analyses[i]
             rest == trend_insights(analyses, i + 1)
         IN  IF "trends" \in DOMAIN analysis
             THEN IF /\ analysis.trends.trend_direction = "bullish"
                     /\ Gt(strength_of(analysis.trends), Num(Scale \div 100))
                  THEN <<[pair |-> analysis.pair, kind |-> "upward_momentum"]>> \o rest
                  ELSE IF /\ analysis.trends.trend_direction = "bearish"
                          /\ Gt(strength_of(analysis.trends), Num(Scale \div 100))
                  THEN <<[pair |-> analysis.pair, kind |-> "downward_pressure"]>> \o rest
                  ELSE rest
             ELSE rest

generate_market_insights(analyses, history) ==
    volatility_insights(analyses, history, 1) \o trend_insights(analyses, 1)

\* ReportGenerator.generate_market_analysis: pairs up and down by the sign
\* of change_pct, and the sentiment of the sentence written
generate_market_analysis(realtime_data) ==
    LET up_count == Cardinality({i \in 1..Len(realtime_data) : realtime_data[i].change_pct > 0})
        down_count == Cardinality({i \in 1..Len(realtime_data) : realtime_data[i].change_pct < 0})
    IN  [up_count |-> up_count,
         down_count |-> down_count,
         sentiment |-> IF up_count > down_count THEN "bullish"
                       ELSE IF down_count > up_count THEN "bearish"
                       ELSE "mixed"]

\* str.endswith
endswith(str, suffix) ==
    CASE suffix = "uptrend" -> str \in {"strong_uptrend", "moderate_uptrend"}
      [] suffix = "downtrend" -> str \in {"strong_downtrend", "moderate_downtrend"}

\* ForexAnalyzer._generate_trading_implications: the risk level and the
\* trading suggestion (the stop-loss line repeats var_95)
generate_trading_implications(analysis) ==
    [risk_level |-> IF Gt(analysis.metrics.volatility, Num(Scale \div 100)) THEN "high"
                    ELSE IF Gt(analysis.metrics.volatility, Num(Scale \div 200)) THEN "moderate"
                    ELSE "low",
     suggestion |-> IF endswith(analysis.trends.trend_direction, "uptrend") THEN "long"
                    ELSE IF endswith(analysis.trends.trend_direction, "downtrend") THEN "short"
                    ELSE "range"]

\* ---- the calls made

\* the labels _determine_trend_direction can return
DirectionLabels ==
    {"strong_uptrend", "moderate_uptrend", "strong_downtrend", "moderate_downtrend", "sideways"}

\* the part of an Analysis the summaries read, for the i-th pair
AnalysisRecords(i) ==
    {[pair |-> currency_pairs[i],
      metrics |-> [volatility |-> Num(0)],
      trends |-> [trend_direction |-> d, trend_strength |-> t]] :
        d \in DirectionLabels, t \in {Num(0), Num(Scale \div 50)}}

RECURSIVE AnalysisLists(_)
AnalysisLists(n) ==
    IF n = 0 THEN {<<>>}
    ELSE LET shorter == AnalysisLists(n - 1)
         IN  shorter \cup {Append(q, a) : q \in {t \in shorter : Len(t) = n - 1},
                                          a \in AnalysisRecords(n)}

RealtimeChanges == {[i \in 1..2 |-> [pair |-> currency_pairs[i], change_pct |-> c[i]]] :
                       c \in [1..2 -> {-1, 0, 1}]}

SummaryCalls ==
    {[op |-> "generate_market_insights", arg |-> a] : a \in AnalysisLists(MaxAnalyses)}
    \cup {[op |-> "generate_market_analysis", arg |-> r] : r \in RealtimeChanges}
    \cup {[op |-> "_generate_trading_implications",
           arg |-> [a EXCEPT !.metrics.volatility = v]] :
             a \in AnalysisRecords(1), v \in {Num(0), Num(7), Num(20)}}

GenerateMarketInsights ==
    /\ call.op = "generate_market_insights"
    /\ ret = Pending
    /\ ret' = Return(generate_market_insights(call.arg, historical_data))
    /\ UNCHANGED <<call, data_dir, monitor_vars, scheduler_vars>>

GenerateMarketAnalysis ==
    /\ call.op = "generate_market_analysis"
    /\ ret = Pending
    /\ ret' = Return(generate_market_analysis(call.arg))
    /\ UNCHANGED <<call, data_dir, monitor_vars, scheduler_vars>>

GenerateTradingImplications ==
    /\ call.op = "_generate_trading_implications"
    /\ ret = Pending
    /\ ret' = Return(generate_trading_implications(call.arg))
    /\ UNCHANGED <<call, data_dir, monitor_vars, scheduler_vars>>

InitSummary == call \in SummaryCalls /\ ret = Pending /\ NoFiles

NextSummary == GenerateMarketInsights \/ GenerateMarketAnalysis \/ GenerateTradingImplications

SpecSummary == InitSummary /\ [][NextSummary]_vars

\* ------------------------------------------------------------------
\* ForexDataFetcher.fetch_daily_data (forex_data_fetcher.py): the API
\* series, or the mock series.  Dates are days; a frame is its index and
\* its close column (open, high and low are built row by row with it).
\* ------------------------------------------------------------------

\* range(100)
MockBars == 100

\* base_prices.get(pair, 1.0), in rate units
mock_base_price(pair) ==
    CASE pair = "EUR/USD" -> 108
      [] pair = "USD/JPY" -> 15000
      [] pair = "GBP/USD" -> 126
      [] pair = "AUD/USD" -> 65
      [] pair = "EUR/GBP" -> 85
      [] OTHER -> PriceUnit

\* _generate_mock_data: dates end_date - 99 .. end_date after the reverse;
\* the seeded draws of 0.2% a day are below the rate unit and every bar
\* carries the base price
generate_mock_data(pair, today) ==
    [index |-> [i \in 1..MockBars |-> today - (MockBars - i)],
     close |-> [i \in 1..MockBars |-> mock_base_price(pair)]]

\* df.sort_index(): the rows by ascending date (the dates of a JSON object
\* are distinct)
sort_index(rows) ==
    [i \in 1..Len(rows) |->
        rows[CHOOSE k \in 1..Len(rows) :
                Cardinality({m \in 1..Len(rows) : rows[m].date <= rows[k].date}) = i]]

\* _fetch_from_api on the outcome of requests.get(...).json(): an
\* exception of the request or of the parse, a JSON object without the
\* daily time series, or one with it; the frame of an empty series cannot
\* take the four column names and a field that is no number fails astype
fetch_from_api(response) ==
    IF response.kind = "exception" THEN Raise("RequestException")
    ELSE IF ~response.has_series THEN Return(None)
    ELSE IF response.series = <<>> \/ ~response.numeric THEN Raise("ValueError")
    ELSE LET rows == sort_index(response.series)
         IN  Return([index |-> [i \in 1..Len(rows) |-> rows[i].date],
                     close |-> [i \in 1..Len(rows) |-> rows[i].close]])

\* a fetcher without the except clause
fetch_daily_data_mut(pair, response, today) ==
    LET data == fetch_from_api(response)
    IN  IF Raised(data) THEN data
        ELSE IF ~IsNone(data.val) THEN data
        ELSE Return(generate_mock_data(pair, today))

fetch_daily_data(pair, response, today) ==
    LET data == fetch_from_api(response)
    IN  IF Raised(data) THEN Return(generate_mock_data(pair, today))
        ELSE IF ~IsNone(data.val) THEN data
        ELSE Return(generate_mock_data(pair, today))

\* ---- the calls made

\* the time series of a response: distinct days in the order of the JSON
ApiSeries ==
    {[i \in 1..Len(d) |-> [date |-> d[i], close |-> BasePrice + d[i]]] :
        d \in {q \in UNION {[1..n -> 1..MaxApiRows] : n \in 0..MaxApiRows} :
                 \A i, j \in 1..Len(q) : i # j => q[i] # q[j]}}

ApiResponses ==
    {[kind |-> "exception", has_series |-> FALSE, series |-> <<>>, numeric |-> FALSE],
     [kind |-> "json", has_series |-> FALSE, series |-> <<>>, numeric |-> FALSE]}
    \cup {[kind |-> "json", has_series |-> TRUE, series |-> r, numeric |-> b] :
             r \in ApiSeries, b \in BOOLEAN}

FetchCalls ==
    {[op |-> "fetch_daily_data", pair |-> p, response |-> r, today |-> t] :
        p \in {"EUR/USD", "USD/JPY", "NZD/USD"}, r \in ApiResponses,
        t \in {MaxApiRows, MaxApiRows + 1}}

FetchDailyData ==
    /\ call.op = "fetch_daily_data"
    /\ ret = Pending
    /\ ret' = fetch_daily_data(call.pair, call.response, call.today)
    /\ UNCHANGED <<call, data_dir, monitor_vars, scheduler_vars>>

InitFetch == call \in FetchCalls /\ ret = Pending /\ NoFiles

NextFetch == FetchDailyData

SpecFetch == InitFetch /\ [][NextFetch]_vars

\* ------------------------------------------------------------------
\* The scheduler (scheduler.py): run_analysis, called by main() at once
\* and then every four hours
\* ------------------------------------------------------------------

\* currency_pairs of run_analysis
scheduled_pairs == <<"EUR/USD", "GBP/USD", "JPY/USD", "AUD/USD">>

\* what fetching and saving the daily data of one asset can come to: the
\* file is saved, nothing is saved (no response, or none with a time
\* series), or the API answered with an 'Error Message', for which
\* fetch_forex_data raises an Exception that nothing catches
FetchOutcomes == {"saved", "nothing", "api_error"}

\* a plausible slip: the report is generated inside the try of the
\* correlation analysis, after it
after_correlation_mut(raised) == IF raised THEN "idle" ELSE "report"

\* the statement after the try/except of the correlation analysis
after_correlation(raised) == "report"

\* run_analysis up to the check of the API key
StartRun ==
    /\ run_pc = "idle"
    /\ runs < MaxRuns
    /\ runs' = runs + 1
    /\ steps' = <<>>
    /\ run_pair' = 1
    /\ \E key \in BOOLEAN :
          /\ api_key' = key
          /\ run_pc' = IF key THEN "fetch" ELSE "idle"
    /\ UNCHANGED <<call, ret, data_dir, monitor_vars>>

\* one iteration of `for base, quote in currency_pairs`
FetchPair ==
    /\ run_pc = "fetch"
    /\ run_pair <= Len(scheduled_pairs)
    /\ \E outcome \in FetchOutcomes :
          IF outcome = "api_error"
          THEN run_pc' = "crashed" /\ UNCHANGED <<run_pair, steps>>
          ELSE /\ steps' = Append(steps, [step |-> "fetch", pair |-> scheduled_pairs[run_pair],
                                          saved |-> outcome = "saved", raised |-> FALSE])
               /\ run_pair' = run_pair + 1
               /\ UNCHANGED run_pc
    /\ UNCHANGED <<call, ret, data_dir, monitor_vars, api_key, runs>>

\* the Bitcoin quote and daily data, after the loop
FetchBitcoin ==
    /\ run_pc = "fetch"
    /\ run_pair > Len(scheduled_pairs)
    /\ \E outcome \in FetchOutcomes :
          IF outcome = "api_error"
          THEN run_pc' = "crashed" /\ UNCHANGED steps
          ELSE /\ steps' = Append(steps, [step |-> "fetch", pair |-> "BTC/USD",
                                          saved |-> outcome = "saved", raised |-> FALSE])
               /\ run_pc' = "correlation"
    /\ UNCHANGED <<call, ret, data_dir, monitor_vars, run_pair, api_key, runs>>

\* calculate_correlations and plot_correlations, in a try/except Exception
RunCorrelationAnalysis ==
    /\ run_pc = "correlation"
    /\ \E raised \in BOOLEAN :
          /\ steps' = Append(steps, [step |-> "correlation", pair |-> "all",
                                     saved |-> ~raised, raised |-> raised])
          /\ run_pc' = after_correlation(raised)
    /\ UNCHANGED <<call, ret, data_dir, monitor_vars, run_pair, api_key, runs>>

\* generate_report, in a try/except Exception; run_analysis returns
GenerateReport ==
    /\ run_pc = "report"
    /\ \E raised \in BOOLEAN :
          steps' = Append(steps, [step |-> "report", pair |-> "all",
                                  saved |-> ~raised, raised |-> raised])
    /\ run_pc' = "idle"
    /\ UNCHANGED <<call, ret, data_dir, monitor_vars, run_pair, api_key, runs>>

InitScheduler ==
    /\ call = [op |-> "scheduler"]
    /\ ret = Pending
    /\ data_dir = EmptyDir
    /\ MonitorOff
    /\ SchedulerStart

NextScheduler ==
    \/ StartRun
    \/ FetchPair
    \/ FetchBitcoin
    \/ RunCorrelationAnalysis
    \/ GenerateReport

SpecScheduler == InitScheduler /\ [][NextScheduler]_vars

\* ------------------------------------------------------------------
\* Claims
\* ------------------------------------------------------------------

TrendReturned == call.op = "_determine_trend_direction" /\ Returned(ret)

TrendDefined == ~IsNaN(call.sma_20) /\ ~IsNaN(call.sma_50) /\ ~IsNaN(call.sma_200)

TrendLabels ==
    {"strong_uptrend", "moderate_uptrend", "strong_downtrend", "moderate_downtrend", "sideways"}

\* C1: for every triple of defined last values (SMA20, SMA50, SMA200) the
\* classifier returns exactly one of the five labels, and it is
\* strong_uptrend iff SMA20 > SMA50 and SMA20 > SMA200, moderate_uptrend iff
\* SMA20 > SMA50 and not SMA20 > SMA200, strong_downtrend iff SMA20 < SMA50
\* and SMA20 < SMA200, moderate_downtrend iff SMA20 < SMA50 and not
\* SMA20 < SMA200, sideways iff SMA20 = SMA50.
C1_TrendDirection ==
    (TrendReturned /\ TrendDefined) =>
        LET s20 == Val(call.sma_20)
            s50 == Val(call.sma_50)
            s200 == Val(call.sma_200)
        IN  /\ ret.val \in TrendLabels
            /\ (ret.val = "strong_uptrend") <=> (s20 > s50 /\ s20 > s200)
            /\ (ret.val = "moderate_uptrend") <=> (s20 > s50 /\ ~(s20 > s200))
            /\ (ret.val = "strong_downtrend") <=> (s20 < s50 /\ s20 < s200)
            /\ (ret.val = "moderate_downtrend") <=> (s20 < s50 /\ ~(s20 < s200))
            /\ (ret.val = "sideways") <=> (s20 = s50)

\* a moderate label has been returned for a defined triple: SMA20 is above
\* SMA50 and not above SMA200
C1_Witness ==
    /\ TrendReturned
    /\ TrendDefined
    /\ ret.val = "moderate_uptrend"
    /\ Val(call.sma_20) > Val(call.sma_50)
    /\ Val(call.sma_20) <= Val(call.sma_200)

\* ---- the analyzer

AnalysisDone(op) == call.op = op /\ ret # Pending

CallRows == Len(call.data.close)

\* the trends of the call, from _analyze_trends or from analyze_pair
TrendsOf == IF call.op = "analyze_pair" THEN ret.val.trends ELSE ret.val

TrendsReturned == call.op \in {"_analyze_trends", "analyze_pair"} /\ Returned(ret)

\* sma is what the claim requires of SMA-N: undefined below N closes, the
\* mean of the last N closes (rounded down to the fixed-point grid) from N on
SmaAsClaimed(sma, N) ==
    LET close == call.data.close
        n == Len(close)
    IN  IF n < N THEN IsNaN(sma)
        ELSE /\ ~IsNaN(sma)
             /\ Val(sma) * N <= SumRange(close, n - N + 1, n) * Scale
             /\ SumRange(close, n - N + 1, n) * Scale < (Val(sma) + 1) * N

\* C2: for N in {20, 50, 200}, the SMA-N reported for a series of fewer
\* than N closes is the undefined marker (NaN), and for a series of at least
\* N closes it is the mean of the last N closes: a mean over fewer than N
\* closes is never reported as SMA-N.
C2_SmaUndefinedBelowWindow ==
    TrendsReturned =>
        /\ SmaAsClaimed(TrendsOf.sma_20, 20)
        /\ SmaAsClaimed(TrendsOf.sma_50, 50)
        /\ SmaAsClaimed(TrendsOf.sma_200, 200)

\* trends were reported for a series of 20 to 49 rows that is not flat:
\* SMA-20 is a number, SMA-50 and SMA-200 are NaN
C2_Witness ==
    /\ call.op = "_analyze_trends"
    /\ Returned(ret)
    /\ CallRows >= 20
    /\ CallRows < 50
    /\ call.data.close[CallRows] # call.data.close[1]
    /\ ~IsNaN(ret.val.sma_20)
    /\ IsNaN(ret.val.sma_50)
    /\ IsNaN(ret.val.sma_200)

\* C8: for every non-empty OHLC price series, also one too short for some
\* sub-computation,
\* analyze_pair returns an Analysis record (it never raises), and a field it
\* could not compute carries an undefined marker, never a default label:
\* with SMA-20 or SMA-50 undefined the trend direction is none of the labels.
C8_BestEffortAnalysis ==
    (AnalysisDone("analyze_pair") /\ CallRows >= 1 /\ call.data.cols = OhlcCols) =>
        /\ Returned(ret)
        /\ (IsNaN(ret.val.trends.sma_20) \/ IsNaN(ret.val.trends.sma_50))
              => ret.val.trends.trend_direction \notin TrendLabels

\* the running maximum of the call's prices up to row t, and the drawdown
\* of row t against it
RunningMax(t) ==
    CHOOSE m \in {call.data.close[j] : j \in 1..t} : \A j \in 1..t : call.data.close[j] <= m

DrawdownAt(t) == ((call.data.close[t] - RunningMax(t)) * Scale) \div RunningMax(t)

\* C9: for a series of positive prices _calculate_max_drawdown returns the
\* minimum over t of (price_t - runningMax_t) / runningMax_t; the result is
\* <= 0, and it is 0 iff the series never falls (is non-decreasing).
C9_MaxDrawdown ==
    (call.op = "_calculate_max_drawdown" /\ Returned(ret) /\ CallRows >= 1) =>
        /\ ~IsNaN(ret.val)
        /\ \E t \in 1..CallRows : Val(ret.val) = DrawdownAt(t)
        /\ \A t \in 1..CallRows : Val(ret.val) <= DrawdownAt(t)
        /\ Val(ret.val) <= 0
        /\ (Val(ret.val) = 0) <=>
              (\A t \in 2..CallRows : call.data.close[t] >= call.data.close[t - 1])

\* the drawdown of a series that rises, falls below its peak and ends above
\* its first price
C9_Witness ==
    /\ call.op = "_calculate_max_drawdown"
    /\ Returned(ret)
    /\ CallRows = 3
    /\ call.data.close[2] > call.data.close[3]
    /\ call.data.close[3] > call.data.close[1]
    /\ Val(ret.val) < 0

ConstantPrices ==
    /\ call.op \in AnalysisOps
    /\ CallRows >= 2
    /\ \A i \in 1..CallRows : call.data.close[i] = call.data.close[1]

\* C10: for every constant-price series of at least 2 rows the analysis
\* reports volatility = 0, Sharpe ratio = 0 and max drawdown = 0.
C10_ConstantSeries ==
    (ConstantPrices /\ Returned(ret)) =>
        /\ call.op = "_calculate_metrics" => ret.val.volatility = Num(0)
        /\ call.op = "_calculate_risk_metrics" =>
              /\ ret.val.sharpe_ratio = Num(0)
              /\ ret.val.max_drawdown = Num(0)
        /\ call.op = "analyze_pair" =>
              /\ ret.val.metrics.volatility = Num(0)
              /\ ret.val.risk_metrics.sharpe_ratio = Num(0)
              /\ ret.val.risk_metrics.max_drawdown = Num(0)

StrictlyIncreasing == \A i \in 2..CallRows : call.data.close[i] > call.data.close[i - 1]

\* C11: for every strictly increasing close series of at least 200 bars
\* (SMA-20, SMA-50 and SMA-200 all defined) the reported trend_direction is
\* strong_uptrend.
C11_RisingIsStrongUptrend ==
    (TrendsReturned /\ CallRows >= 200 /\ StrictlyIncreasing) =>
        TrendsOf.trend_direction = "strong_uptrend"

\* analyze_pair returned for a rising series of 200 rows whose steps are
\* not all the same
C11_Witness ==
    /\ call.op = "analyze_pair"
    /\ Returned(ret)
    /\ CallRows = 200
    /\ StrictlyIncreasing
    /\ call.data.close[200] - call.data.close[199] # call.data.close[2] - call.data.close[1]
    /\ ~IsNaN(ret.val.trends.sma_200)
    /\ ret.val.trends.trend_direction = "strong_uptrend"

\* C15: the trend direction is sideways only in the tie case, when the last
\* SMA-20 and the last SMA-50 are both defined and equal; a series with an
\* undefined SMA-50 or SMA-200 is never classified sideways for that reason.
C15_SidewaysOnlyOnTie ==
    (TrendsReturned /\ TrendsOf.trend_direction = "sideways") =>
        /\ ~IsNaN(TrendsOf.sma_20)
        /\ ~IsNaN(TrendsOf.sma_50)
        /\ TrendsOf.sma_20 = TrendsOf.sma_50

\* C17: _calculate_metrics fails (raises or returns an empty result) when
\* the series has fewer than 2 rows, and for every series of at least 2 rows
\* whose closes are all equal it does not raise and reports volatility 0.
C17_MetricsPreconditions ==
    (AnalysisDone("_calculate_metrics") /\ call.data.cols = OhlcCols) =>
        /\ CallRows < 2 => (Raised(ret) \/ ret = Return(None))
        /\ ConstantPrices => (Returned(ret) /\ ret.val.volatility = Num(0))

\* C20: when no market series is supplied beta is the return series' own
\* standard deviation: in every Analysis produced by analyze_pair,
\* risk_metrics.beta equals metrics.volatility.
C20_BetaIsVolatility ==
    (AnalysisDone("analyze_pair") /\ Returned(ret)) =>
        /\ ~IsNaN(ret.val.risk_metrics.beta)
        /\ ret.val.risk_metrics.beta = ret.val.metrics.volatility

\* an Analysis of a series that moves: the volatility is above 0
C20_Witness ==
    /\ AnalysisDone("analyze_pair")
    /\ Returned(ret)
    /\ Gt(ret.val.metrics.volatility, Num(0))
    /\ ret.val.risk_metrics.beta = ret.val.metrics.volatility

PatternsReturned == call.op \in {"_identify_patterns", "analyze_pair"} /\ Returned(ret)

PatternsOf == IF call.op = "analyze_pair" THEN ret.val.patterns ELSE ret.val

\* the greatest high and the least low of the rows lo..hi of the call
HighestHigh(lo, hi) ==
    CHOOSE m \in {call.data.high[j] : j \in lo..hi} : \A j \in lo..hi : call.data.high[j] <= m

LowestLow(lo, hi) ==
    CHOOSE m \in {call.data.low[j] : j \in lo..hi} : \A j \in lo..hi : call.data.low[j] >= m

\* C21: the double-top (double-bottom) flag compares the rolling max of
\* high (min of low) over the 10 bars ending at the latest bar with the same
\* statistic 10 positions earlier, so that the two windows share no bar; the
\* flag is true iff the two values differ by strictly less than 0.001.
C21_DisjointPatternWindows ==
    (PatternsReturned /\ CallRows >= 20) =>
        LET n == CallRows
        IN  /\ PatternsOf.double_top <=>
                  Abs(Fx(HighestHigh(n - 9, n)) - Fx(HighestHigh(n - 19, n - 10))) < Tolerance
            /\ PatternsOf.double_bottom <=>
                  Abs(Fx(LowestLow(n - 9, n)) - Fx(LowestLow(n - 19, n - 10))) < Tolerance

\* C24: in every Analysis produced by analyze_pair, for every input series,
\* the head_and_shoulders flag is false.
C24_NoHeadAndShoulders ==
    PatternsReturned => PatternsOf.head_and_shoulders = FALSE

\* an Analysis of a series with a head between two shoulders (a cap of 200
\* rows) that flags another pattern
C24_Witness ==
    /\ call.op = "analyze_pair"
    /\ Returned(ret)
    /\ CallRows >= 50
    /\ \E i \in 2..(CallRows - 1) :
          /\ call.data.close[i] > call.data.close[1]
          /\ call.data.close[i] > call.data.close[CallRows]
    /\ ret.val.patterns.head_and_shoulders = FALSE

\* ---- market summarisation

\* the pairs of the call's analyses with one of the labels
PairsLabelled(labels) ==
    {call.arg[i].pair : i \in {j \in 1..Len(call.arg) : call.arg[j].trends.trend_direction \in labels}}

\* the pairs the summary has counted with an insight of the kind
PairsCounted(kind) ==
    {ret.val[i].pair : i \in {j \in 1..Len(ret.val) : ret.val[j].kind = kind}}

\* C23: in the market summary over a set of Analysis records a pair is
\* counted bullish exactly when its trend_direction is strong_uptrend or
\* moderate_uptrend and bearish exactly when it is strong_downtrend or
\* moderate_downtrend; a sideways pair is neither, so the two counts
\* together never exceed the number of records.
C23_BullishBearishCounts ==
    (call.op = "generate_market_insights" /\ Returned(ret)) =>
        /\ PairsCounted("upward_momentum") = PairsLabelled({"strong_uptrend", "moderate_uptrend"})
        /\ PairsCounted("downward_pressure") =
              PairsLabelled({"strong_downtrend", "moderate_downtrend"})
        /\ Cardinality(PairsCounted("upward_momentum"))
              + Cardinality(PairsCounted("downward_pressure")) <= Len(call.arg)

\* ---- the realtime monitor

\* C12: after every update of a pair's history buffer made at cycle time T
\* (append the new point, then prune), every point of that buffer has a
\* timestamp strictly greater than T - 24 hours and the point just appended
\* is in the buffer, after any sequence of cycles.
C12_WindowAfterUpdate ==
    pc = next_stage("prune") =>
        LET buffer == historical_data[CurrentPair]
        IN  /\ \A k \in 1..Len(buffer) : buffer[k].timestamp > current_time - WindowTicks
            /\ \E k \in 1..Len(buffer) :
                  buffer[k] = [timestamp |-> current_time, rate |-> quote_data.rate]

\* an update has just kept a point one tick younger than 24 hours and
\* dropped at least one older point
C12_Witness ==
    /\ pc = next_stage("prune")
    /\ cycles = 3
    /\ Len(historical_data[CurrentPair]) = 2
    /\ historical_data[CurrentPair][1].timestamp = current_time - WindowTicks + 1

\* all points of a buffer are within 24 hours of its last update, the time
\* of its last point
WithinWindowOfLastUpdate(buffer) ==
    \A k \in 1..Len(buffer) : buffer[k].timestamp > buffer[Len(buffer)].timestamp - WindowTicks

\* C13: updates of the history buffer are append-then-prune in one step as
\* seen by readers: a report (generate_market_summary,
\* generate_hourly_summary) never reads while an update is between its
\* append and its prune, and every buffer it reads has all its points within
\* the 24-hour window of the buffer's last update.
C13_ReadersSeeWholeUpdates ==
    [][snapshot' # snapshot =>
          /\ pc \notin {"append", "prune", "analyze"}
          /\ \A p \in PairSet : WithinWindowOfLastUpdate(snapshot'.data[p])]_vars

\* the hourly summary has read a buffer updated in this cycle next to one
\* whose last update is from an earlier cycle
C13_Witness ==
    /\ snapshot.reader = "generate_hourly_summary"
    /\ pc = "sleep"
    /\ \E p, q \in PairSet :
          /\ Len(snapshot.data[p]) >= 2
          /\ snapshot.data[p][Len(snapshot.data[p])].timestamp = current_time
          /\ Len(snapshot.data[q]) >= 1
          /\ snapshot.data[q][Len(snapshot.data[q])].timestamp < current_time

\* the step in which the processing of a pair fails after its quote was
\* fetched: the analysis raises and the except clause ends the iteration
PairFails == pc = "analyze" /\ pc' = "fetch" /\ all_analyses' = all_analyses

\* the point of the quote being processed
PointOfQuote == [timestamp |-> current_time, rate |-> quote_data.rate]

\* C25: a failure while processing one pair in a realtime cycle is local:
\* the remaining pairs are still processed (the loop goes on with the next
\* pair), the history point recorded before the failure stays in the
\* pair's buffer, the market summary is still generated once the pairs are
\* done, and the monitor loop does not terminate (a next cycle can start).
C25_FailureIsLocal ==
    /\ [][PairFails =>
             /\ pair_index' = pair_index + 1
             /\ cycles' = cycles
             /\ historical_data' = historical_data
             /\ \E k \in 1..Len(historical_data'[CurrentPair]) :
                   historical_data'[CurrentPair][k] = PointOfQuote]_vars
    /\ [](pc = "fetch" =>
             IF pair_index <= Len(MonitoredPairs) THEN ENABLED FetchQuote
             ELSE ENABLED GenerateMarketSummary)
    /\ [](pc = "hourly" => ENABLED (GenerateHourlySummary \/ SkipHourlySummary))
    /\ []((pc = "sleep" /\ cycles < MaxCycles) => ENABLED StartCycle)

\* the pairs whose quote was fetched and recorded in the running cycle
QuotedThisCycle ==
    {p \in PairSet : /\ historical_data[p] # <<>>
                     /\ historical_data[p][Len(historical_data[p])].timestamp = current_time}

\* in the third cycle both pairs were quoted, the analysis of each failed,
\* both points are in the buffers and the market summary has been written
C25_Witness ==
    /\ pc = "hourly"
    /\ cycles = 3
    /\ QuotedThisCycle = PairSet
    /\ all_analyses = <<>>
    /\ snapshot.reader = "generate_market_summary"

\* C26: in a realtime cycle each pair for which a quote is obtained
\* contributes exactly one analysis to all_analyses, whose
\* metrics.current_price is the fetched rate (so that the realtime arbitrage
\* check can evaluate the triangle on the quotes).
C26_OneAnalysisPerQuote ==
    pc = "hourly" =>
        \A p \in QuotedThisCycle :
            Cardinality({k \in 1..Len(all_analyses) :
                            /\ all_analyses[k].pair = p
                            /\ all_analyses[k].metrics.current_price =
                                  historical_data[p][Len(historical_data[p])].rate}) = 1

\* the clock hour of a time, counted from the epoch of the model
ClockHour(t) == t \div HourTicks

ReportHours == {ClockHour(hourly_reports[i].timestamp) : i \in 1..Len(hourly_reports)}

\* C27: an hourly summary is generated in a cycle iff the cycle's clock
\* hour is strictly later than last_hourly_report, which is then set to
\* that hour; last_hourly_report never decreases, at most one hourly
\* summary is generated per clock hour, and none in the clock hour in which
\* the monitor started.
C27_HourlyOncePerHour ==
    /\ [][pc = "hourly" =>
             LET generated == hourly_reports' # hourly_reports
             IN  /\ generated <=> ClockHour(current_time) * HourTicks > last_hourly_report
                 /\ generated =>
                       /\ last_hourly_report' = ClockHour(current_time) * HourTicks
                       /\ Len(hourly_reports') = Len(hourly_reports) + 1
                       /\ hourly_reports'[Len(hourly_reports')].timestamp = current_time
                 /\ ~generated => last_hourly_report' = last_hourly_report]_vars
    /\ [][/\ last_hourly_report' >= last_hourly_report
          /\ pc # "hourly" => hourly_reports' = hourly_reports]_vars
    /\ [](Cardinality(ReportHours) = Len(hourly_reports))
    /\ [](\A start \in Starts : ClockHour(start) \notin ReportHours)

\* one summary was written in the second cycle and none in the third, which
\* ran in the same clock hour
C27_Witness ==
    /\ pc = "sleep"
    /\ cycles = 3
    /\ Len(hourly_reports) = 1
    /\ hourly_reports[1].timestamp < current_time
    /\ ClockHour(hourly_reports[1].timestamp) = ClockHour(current_time)

Ordered(buffer) ==
    \A i, j \in 1..Len(buffer) : i < j => buffer[i].timestamp <= buffer[j].timestamp

\* the positions of the points of the buffer in the hour before `now`
InLastHour(buffer, now) == {k \in 1..Len(buffer) : buffer[k].timestamp > now - HourTicks}

Earliest(buffer, among) ==
    buffer[CHOOSE k \in among : \A m \in among : buffer[k].timestamp <= buffer[m].timestamp]

Latest(buffer, among) ==
    buffer[CHOOSE k \in among : \A m \in among : buffer[k].timestamp >= buffer[m].timestamp]

\* the hourly summary just written, with the buffers it read
LastHourly == hourly_reports[Len(hourly_reports)]

\* C28: under a non-decreasing clock every history buffer is ordered by
\* non-decreasing timestamp (pruning keeps the append order), so that in
\* the hourly summary the Opening Rate and the Closing Rate of a pair are
\* the rates of the earliest and of the latest point of the last hour.
C28_OpeningAndClosing ==
    /\ \A p \in PairSet : Ordered(historical_data[p])
    /\ snapshot.reader = "generate_hourly_summary" =>
          \A p \in PairSet :
              LET buffer == snapshot.data[p]
                  among == InLastHour(buffer, LastHourly.timestamp)
              IN  among # {} =>
                     /\ LastHourly.sections[p] # <<>>
                     /\ LastHourly.sections[p][1].opening = Earliest(buffer, among).rate
                     /\ LastHourly.sections[p][1].closing = Latest(buffer, among).rate

\* an hourly summary of a pair with two points in the hour, whose rates
\* differ
C28_Witness ==
    /\ snapshot.reader = "generate_hourly_summary"
    /\ \E p \in PairSet :
          /\ Cardinality(InLastHour(snapshot.data[p], LastHourly.timestamp)) >= 2
          /\ LastHourly.sections[p] # <<>>
          /\ LastHourly.sections[p][1].opening # LastHourly.sections[p][1].closing

\* ---- the daily data fetcher

\* the API yields a series: the response holds a non-empty daily time
\* series of numbers
ApiYieldsSeries ==
    /\ call.response.kind = "json"
    /\ call.response.has_series
    /\ call.response.series # <<>>
    /\ call.response.numeric

\* the frame is the series of the response, by ascending date
IsApiSeries(frame) ==
    /\ Len(frame.index) = Len(call.response.series)
    /\ \A k \in 1..Len(call.response.series) :
          \E i \in 1..Len(frame.index) :
              /\ frame.index[i] = call.response.series[k].date
              /\ frame.close[i] = call.response.series[k].close
    /\ \A i \in 1..(Len(frame.index) - 1) : frame.index[i] < frame.index[i + 1]

\* the frame is 100 daily bars by ascending date, the last one of today
IsMockSeries(frame) ==
    /\ Len(frame.index) = 100
    /\ Len(frame.close) = 100
    /\ \A i \in 1..99 : frame.index[i + 1] = frame.index[i] + 1
    /\ frame.index[100] = call.today

\* C29: fetch_daily_data always returns a price series, never raises and
\* never returns None: the API series when the API yields one, otherwise
\* (no daily time series in the response, or any exception) the generated
\* mock series of 100 daily bars in ascending date order.
C29_AlwaysASeries ==
    (call.op = "fetch_daily_data" /\ ret # Pending) =>
        /\ Returned(ret)
        /\ ~IsNone(ret.val)
        /\ IF ApiYieldsSeries THEN IsApiSeries(ret.val) ELSE IsMockSeries(ret.val)

\* the request raised and the mock series was returned
C29_Witness ==
    /\ call.op = "fetch_daily_data"
    /\ call.response.kind = "exception"
    /\ Returned(ret)
    /\ IsMockSeries(ret.val)

\* ---- the scheduler

\* the positions of the steps of a kind in the log of the run
StepsOf(kind) == {i \in 1..Len(steps) : steps[i].step = kind}

\* the assets whose data the run fetches, in the order of run_analysis
FetchOrder == <<"EUR/USD", "GBP/USD", "JPY/USD", "AUD/USD", "BTC/USD">>

\* C30: in every run_analysis that finds an API key the steps occur in
\* the order fetch/save per pair, correlation analysis, report generation,
\* and the report is attempted whether or not the correlation analysis
\* raised; a run_analysis that finds no API key fetches nothing, runs no
\* correlation analysis and generates no report.
C30_RunOrder ==
    /\ [](~api_key => steps = <<>>)
    /\ [](\A i \in StepsOf("fetch") : steps[i].pair = FetchOrder[i])
    /\ [](\A i \in StepsOf("correlation") : i = Len(FetchOrder) + 1)
    /\ [](\A i \in StepsOf("report") : i = Len(FetchOrder) + 2 /\ steps[i - 1].step = "correlation")
    /\ [][StepsOf("correlation") # {} /\ StepsOf("report") = {} =>
             StepsOf("report")' # {}]_vars

\* a run in which the correlation analysis raised and the report was
\* generated
C30_Witness ==
    /\ run_pc = "idle"
    /\ api_key
    /\ \E i \in StepsOf("correlation") : steps[i].raised
    /\ \E i \in StepsOf("report") : ~steps[i].raised

\* ---- the daily files

StoreDone(op) == call.op = op /\ ret # Pending

\* the rows of the file are in ascending order of date
AscendingDates(rows) == \A i \in 2..Len(rows) : rows[i].date > rows[i - 1].date

\* the close of the row with the greatest date in the file of each pair
LatestCloses ==
    [p \in PairNames |->
        IF p \in StoredPairs /\ data_dir[p].exists
        THEN LET rows == {data_dir[p].rows[i] : i \in 1..Len(data_dir[p].rows)}
             IN  <<(CHOOSE r \in rows : \A q \in rows : q.date <= r.date).close>>
        ELSE <<>>]

\* C14: the series that save_forex_data stores and load_currency_data
\* returns is in ascending order of timestamp whatever order the fetch
\* delivered the records in, so for every pair the rate the batch arbitrage
\* detector uses is the close of the record with the greatest timestamp.
C14_LatestCloseUsed ==
    /\ \A p \in StoredPairs : data_dir[p].exists => AscendingDates(data_dir[p].rows)
    /\ StoreDone("detect_arbitrage_opportunities") =>
          ret.val = TriangleCheck(load_pair_rates(currency_pairs, LatestCloses, 1),
                                  "triangular", BatchThreshold)

\* C16: when a series needed for correlation or arbitrage is missing (no
\* stored data for the reference crypto asset or for a forex pair), the
\* correlation and arbitrage computations return a 'no result' value (None,
\* an empty result, or the pair left out) and do not raise.
C16_MissingSeriesNoRaise ==
    (/\ StoreDone("detect_arbitrage_opportunities") \/ StoreDone("calculate_correlations")
     /\ \E p \in StoredPairs : ~data_dir[p].exists)
        => ~Raised(ret)

\* ---- correlation

CorrDone == call.op = "calculate_crypto_correlation" /\ ret # Pending

Missing(data) == IsNone(data) \/ DOMAIN data.close = {}

CommonDates ==
    IF IsNone(call.forex_data) \/ IsNone(call.crypto_data) THEN {}
    ELSE DOMAIN call.forex_data.close \cap DOMAIN call.crypto_data.close

CorrResult == CorrDone /\ Returned(ret) /\ ~IsNone(ret.val)

\* C5: calculate_crypto_correlation returns None, without raising, whenever
\* the two series share fewer than `window` dates (also when their dates are
\* disjoint) and whenever either series is absent or empty.
C5_NoResultBelowWindow ==
    (/\ CorrDone
     /\ \/ Missing(call.forex_data)
        \/ Missing(call.crypto_data)
        \/ Cardinality(CommonDates) < call.window)
        => ret = Return(None)

\* two series that both have dates but share none, at the default window
C5_Witness ==
    /\ CorrDone
    /\ ~Missing(call.forex_data)
    /\ ~Missing(call.crypto_data)
    /\ CommonDates = {}
    /\ call.window = DefaultWindow
    /\ ret = Return(None)

\* the prices of the series at the common dates are not all the same
Varies(data) == \E d, e \in CommonDates : data.close[d] # data.close[e]

\* C6: whenever the two series share at least `window` dates, exactly
\* `window` of them included, calculate_crypto_correlation returns a result
\* whose current_correlation is a defined number, not an undefined marker
\* (stated for series whose prices vary over the common dates).
C6_CurrentCorrelationDefined ==
    (/\ CorrDone
     /\ Cardinality(CommonDates) >= call.window
     /\ Varies(call.forex_data)
     /\ Varies(call.crypto_data)) =>
        /\ Returned(ret)
        /\ ~IsNone(ret.val)
        /\ ~IsNaN(ret.val.current_correlation)

\* C7: in every result of calculate_crypto_correlation, correlation_trend
\* is "increasing" iff current_correlation is strictly greater than
\* avg_correlation, and "decreasing" in every other case, a tie included.
C7_TrendTag ==
    CorrResult =>
        LET r == ret.val
            greater == /\ ~IsNaN(r.current_correlation)
                       /\ ~IsNaN(r.avg_correlation)
                       /\ Val(r.current_correlation) > Val(r.avg_correlation)
        IN  r.correlation_trend = (IF greater THEN "increasing" ELSE "decreasing")

\* a result whose current and average correlation are the same number
C7_Witness ==
    /\ CorrResult
    /\ ~IsNaN(ret.val.current_correlation)
    /\ ret.val.current_correlation = ret.val.avg_correlation
    /\ ret.val.correlation_trend = "decreasing"

\* a result whose current correlation is above the average
C7_Increasing ==
    /\ CorrResult
    /\ ~IsNaN(ret.val.current_correlation)
    /\ ~IsNaN(ret.val.avg_correlation)
    /\ Val(ret.val.current_correlation) > Val(ret.val.avg_correlation)
    /\ ret.val.correlation_trend = "increasing"

BothPresent == ~IsNone(call.forex_data) /\ ~IsNone(call.crypto_data)

\* the series with the bars outside the common dates taken away
OnCommonDates(data) == [close |-> [d \in CommonDates |-> data.close[d]]]

\* C18: the two series are aligned by inner join on timestamps before the
\* correlation: the returns are computed between consecutive common dates
\* only, and no bar whose date is absent from either series contributes to
\* any correlation value (the result is that of the two series cut down to
\* their common dates).
C18_InnerJoin ==
    (CorrDone /\ BothPresent) =>
        ret = calculate_crypto_correlation(OnCommonDates(call.forex_data),
                                           OnCommonDates(call.crypto_data), call.window)

\* a defined correlation of two series where a crypto bar lies between two
\* common dates on a day the forex series does not have
C18_Witness ==
    /\ CorrResult
    /\ ~IsNaN(ret.val.current_correlation)
    /\ \E d \in DOMAIN call.crypto_data.close \ DOMAIN call.forex_data.close :
          \E a, b \in CommonDates : a < d /\ d < b

SelfCorrelation == BothPresent /\ call.forex_data.close = call.crypto_data.close

\* the returns of the series of the call, in date order
SelfReturns == pct_change(loc(call.forex_data, intersection(call.forex_data, call.forex_data)), 1)

\* C19: the rolling correlation of a series with itself is 1.0 at every
\* position where it is defined, and it is defined for every full trailing
\* window whose returns are not all equal.
C19_SelfCorrelationIsOne ==
    (CorrDone /\ SelfCorrelation) =>
        /\ \A i \in 1..Len(SelfReturns) :
              LET c == rolling_corr_at(SelfReturns, SelfReturns, call.window, i)
                  varying == /\ i > call.window
                             /\ \E j, k \in (i - call.window + 1)..i :
                                   SelfReturns[j] # SelfReturns[k]
              IN  /\ IsNaN(c) \/ c = Num(Scale)
                  /\ varying => c = Num(Scale)
        /\ (Returned(ret) /\ ~IsNone(ret.val)) =>
              /\ IsNaN(ret.val.current_correlation) \/ ret.val.current_correlation = Num(Scale)
              /\ IsNaN(ret.val.avg_correlation) \/ ret.val.avg_correlation = Num(Scale)

\* a series correlated with itself over windows of three returns
C19_Witness ==
    /\ CorrResult
    /\ SelfCorrelation
    /\ call.window = 3
    /\ ret.val.current_correlation = Num(Scale)

\* ---- arbitrage

HasTriangle ==
    /\ call.op = "arbitrage"
    /\ call.rates["EUR/USD"] # <<>>
    /\ call.rates["EUR/GBP"] # <<>>
    /\ call.rates["GBP/USD"] # <<>>

\* D, and A * B, of the rates of the call
DirectRate == call.rates["EUR/USD"][1]

IndirectRate == call.rates["EUR/GBP"][1] * call.rates["GBP/USD"][1]

\* what the claim requires of one path's result at threshold t
ArbitrageAsClaimed(r, t) ==
    Returned(r) =>
        /\ (r.val # <<>>) <=> PctAbsGt(difference_pct(DirectRate, IndirectRate), t)
        /\ r.val # <<>> =>
              /\ Len(r.val) = 1
              /\ r.val[1].direct_rate = DirectRate
              /\ r.val[1].indirect_rate = IndirectRate
              /\ r.val[1].difference_pct = <<(DirectRate * PriceUnit - IndirectRate) * 100, IndirectRate>>

\* C3: with D = EUR/USD, A = EUR/GBP and B = GBP/USD all present, each
\* detector reports an opportunity iff |(D/(A*B) - 1) * 100| is strictly
\* greater than the configured threshold, and the record reported has
\* direct_rate = D, indirect_rate = A*B and difference_pct = (D/(A*B) - 1) * 100;
\* so D=1.10, A=0.90, B=1.20 is flagged at threshold 0.1 and not at 5.
C3_FlaggedIffAboveThreshold ==
    HasTriangle =>
        /\ ArbitrageAsClaimed(ret.batch, call.threshold)
        /\ ArbitrageAsClaimed(ret.realtime, call.threshold)

\* C4: the threshold is configuration, not a constant inside either
\* detector: on the same three rates the batch path and the realtime path
\* return the same flag / no-flag verdict.
C4_SameVerdict ==
    (HasTriangle /\ Returned(ret.batch) /\ Returned(ret.realtime)) =>
        ((ret.batch.val # <<>>) <=> (ret.realtime.val # <<>>))

\* what the claim requires of one path's result
OnlyTheTriangle(r) ==
    Returned(r) =>
        /\ Len(r.val) <= 1
        /\ \A i \in 1..Len(r.val) : r.val[i].pairs = <<"EUR/USD", "EUR/GBP", "GBP/USD">>
        /\ ~HasTriangle => r.val = <<>>

\* C22: either detector evaluates only the EUR/USD, EUR/GBP, GBP/USD
\* triangle: it returns at most one opportunity, the pairs of that
\* opportunity are exactly those three, and it returns none whenever one
\* of the three rates is unavailable, whatever other pairs are present.
C22_OnlyTheTriangle ==
    call.op = "arbitrage" => OnlyTheTriangle(ret.batch) /\ OnlyTheTriangle(ret.realtime)

\* both paths have flagged the triangle while a fourth pair has a rate
C22_Witness ==
    /\ HasTriangle
    /\ call.rates["USD/JPY"] # <<>>
    /\ Returned(ret.batch) /\ Len(ret.batch.val) = 1
    /\ Returned(ret.realtime) /\ Len(ret.realtime.val) = 1

====
